---- MODULE Spec2Model ----
(***************************************************************************)
(* Model of the report-text extraction engine of netgear-financial-monitor *)
(* (scripts/enhanced_pdf_extractor.py, scripts/pdf_financial_data_         *)
(* extractor.py).                                                          *)
(*                                                                         *)
(* Strings are modelled as sequences of lexical tokens separated by one    *)
(* blank.  A token is a record [k, v, x]: k is the lexical class the       *)
(* regular expressions of the code distinguish, v a number carried by the  *)
(* token, x whether a quarter word is spelled exactly as the key of        *)
(* quarter_map (the patterns are compiled with re.IGNORECASE, the          *)
(* dictionary lookup is case-sensitive).                                   *)
(***************************************************************************)
EXTENDS Integers, Sequences, FiniteSets, TLC

VARIABLES
    call,                  \* one application of a pure method: [fn, arg, ret]
    companies,             \* table companies: the ids of the rows with symbol NTGR
    financial_data,        \* table financial_data, in insertion order
    product_line_revenue,  \* table product_line_revenue, in insertion order
    proc,                  \* per extractor run: the position in process_pdf_file
    last,                  \* the last call of process_pdf_file that returned
    calls,                 \* the calls of process_pdf_file made so far
    failures,              \* the persistence calls that failed so far
    run                    \* run_extraction: its file list, position and counters

vars == <<call, companies, financial_data, product_line_revenue, proc, last, calls,
          failures, run>>

store == <<companies, financial_data, product_line_revenue>>

pipeline == <<companies, financial_data, product_line_revenue, proc, last, calls,
              failures, run>>

NoValue == [kind |-> "none"]

\* The growth rate and the margin the basic extractor attaches to a
\* segment are left out of the model.
Unmodelled == [kind |-> "unmodelled"]

Raised(exc) == [kind |-> "raise", exc |-> exc]

(***************************************************************************)
(* Filename tokens                                                         *)
(***************************************************************************)
QWord(q, exact) == [k |-> "qword", v |-> q, x |-> exact]

TQuarter == [k |-> "quarter", v |-> 0, x |-> TRUE]

TAndFullYear == [k |-> "and_full_year", v |-> 0, x |-> TRUE]

TYear(y) == [k |-> "year", v |-> y, x |-> TRUE]

TQn(q) == [k |-> "qn", v |-> q, x |-> TRUE]

TDigit(q) == [k |-> "digit", v |-> q, x |-> TRUE]

TWord == [k |-> "word", v |-> 0, x |-> TRUE]

\* The least index of a set of match positions, 0 when there is none
\* (re.search scans from the left and reports the leftmost match only).
FirstIndex(hits) ==
    IF hits = {} THEN 0 ELSE CHOOSE i \in hits : \A j \in hits : i <= j

\* f'Q{quarter}-{year}'
PeriodLabel(quarter, year) == <<"Q", quarter, "-", year>>

\* The descriptor with the label of the full-year branch in every branch.
PeriodInfoFullYearLabel(year, quarter, full) ==
    [kind |-> "period", fiscal_year |-> year, fiscal_quarter |-> quarter,
     period |-> PeriodLabel(4, year), is_full_year |-> full]

PeriodInfo(year, quarter, full) ==
    [kind |-> "period", fiscal_year |-> year, fiscal_quarter |-> quarter,
     period |-> PeriodLabel(quarter, year), is_full_year |-> full]

\* quarter_map.get(quarter_name, 0): the keys are 'First'..'Fourth' and
\* '1'..'4'; any other spelling of the matched text maps to 0.
QuarterMapGet(tok) ==
    CASE tok.k = "qword" -> IF tok.x THEN tok.v ELSE 0
      [] tok.k \in {"qn", "digit"} -> tok.v
      [] OTHER -> 0

\* The four regular expressions of EnhancedPDFExtractor, in list order.
\* PatternMatchAt(n, s, i): pattern n matches s starting at token i.
PatternMatchAt(n, s, i) ==
    CASE n = 1 -> /\ i + 2 <= Len(s)
                  /\ s[i].k = "qword" /\ s[i+1].k = "quarter" /\ s[i+2].k = "year"
      [] n = 2 -> /\ i + 3 <= Len(s)
                  /\ s[i].k = "qword" /\ s[i].v = 4 /\ s[i+1].k = "quarter"
                  /\ s[i+2].k = "and_full_year" /\ s[i+3].k = "year"
      [] n = 3 -> /\ i + 1 <= Len(s)
                  /\ s[i].k = "qn" /\ s[i+1].k = "year"
      [] n = 4 -> /\ i + 2 <= Len(s)
                  /\ s[i].k = "quarter" /\ s[i+1].k = "digit" /\ s[i+2].k = "year"
      [] OTHER -> FALSE

PatternSearch(n, s) == FirstIndex({i \in 1..Len(s) : PatternMatchAt(n, s, i)})

\* The capture groups of a match of pattern n at token i.
PatternGroups(n, s, i) ==
    CASE n = 1 -> <<s[i], s[i+2]>>
      [] n = 2 -> <<s[i+3]>>
      [] n = 3 -> <<s[i], s[i+1]>>
      [] n = 4 -> <<s[i+1], s[i+2]>>
      [] OTHER -> <<>>

\* The source text of pattern n, cut into its pieces ("WS" is \s+).
PatternSource(n) ==
    CASE n = 1 -> <<"(First|Second|Third|Fourth)", "WS", "Quarter", "WS", "(\\d{4})">>
      [] n = 2 -> <<"Fourth", "WS", "Quarter", "WS", "and", "WS", "Full", "WS",
                    "Year", "WS", "(\\d{4})">>
      [] n = 3 -> <<"Q", "([1-4])", "WS", "(\\d{4})">>
      [] n = 4 -> <<"Quarter", "WS", "([1-4])", "WS", "(\\d{4})">>
      [] OTHER -> <<>>

\* 'Full Year' in pattern: a substring test on the pattern's source text,
\* which needs the two words separated by one blank.
FullYearInPattern(n) ==
    LET src == PatternSource(n)
    IN  \E i \in 1..Len(src) :
            i + 2 <= Len(src) /\ src[i] = "Full" /\ src[i+1] = " " /\ src[i+2] = "Year"

NumPatterns == 4

\* The body of the for-loop over the patterns, from pattern n on.
RECURSIVE ParseLoop(_, _)
ParseLoop(s, n) ==
    IF n > NumPatterns THEN NoValue
    ELSE LET i == PatternSearch(n, s)
         IN  IF i = 0 THEN ParseLoop(s, n + 1)
             ELSE LET g == PatternGroups(n, s, i)
                  IN  IF FullYearInPattern(n)
                      THEN PeriodInfo(g[1].v, 4, TRUE)
                      ELSE IF Len(g) < 2 THEN Raised("IndexError")
                      ELSE LET quarter == QuarterMapGet(g[1])
                           IN  IF quarter > 0
                               THEN PeriodInfo(g[2].v, quarter, FALSE)
                               ELSE ParseLoop(s, n + 1)

\* EnhancedPDFExtractor.parse_period_from_filename
parse_period_from_filename(filename) == ParseLoop(filename, 1)

\* PDFFinancialDataExtractor.parse_period_from_filename: one pattern per
\* quarter word, the quarter taken from the pattern, not from the match.
RECURSIVE BasicParseLoop(_, _)
BasicParseLoop(s, q) ==
    IF q > 4 THEN NoValue
    ELSE LET i == FirstIndex({j \in 1..Len(s) :
                      /\ j + 2 <= Len(s)
                      /\ s[j].k = "qword" /\ s[j].v = q
                      /\ s[j+1].k = "quarter" /\ s[j+2].k = "year"})
         IN  IF i = 0 THEN BasicParseLoop(s, q + 1)
             ELSE [kind |-> "period", fiscal_year |-> s[i+2].v,
                   fiscal_quarter |-> q, period |-> PeriodLabel(q, s[i+2].v)]

basic_parse_period_from_filename(filename) == BasicParseLoop(filename, 1)

(***************************************************************************)
(* Report text.  A text is a sequence of words separated by one blank; a   *)
(* word is a record [w, v, a].  Letter case is dropped (every text pattern *)
(* is compiled with re.IGNORECASE and the polarity test lower-cases the    *)
(* window).  w = "#" is a numeral (digits, commas, a decimal point) of     *)
(* value v, w = "," a run of commas (matched by the same expression and    *)
(* rejected by float), and a                                               *)
(* is what is glued to a numeral: "" nothing, "$" a leading dollar sign,   *)
(* "%", "+%" or "-%".  w = "nl" is a line break standing between two       *)
(* blanks.                                                                 *)
(***************************************************************************)
W(w) == [w |-> w, v |-> 0, a |-> ""]

Num(v) == [w |-> "#", v |-> v, a |-> ""]

Dollar(v) == [w |-> "#", v |-> v, a |-> "$"]

Pct(v) == [w |-> "#", v |-> v, a |-> "%"]

SignedPct(sign, v) == [w |-> "#", v |-> v, a |-> IF sign < 0 THEN "-%" ELSE "+%"]

Commas == [w |-> ",", v |-> 0, a |-> ""]

NL == W("nl")

NoTok == W("")

IsNumeral(tok) == tok.w \in {"#", ","}

\* float(match.group(1).replace(',', '')): raises ValueError on a run of
\* commas, which the callers catch.
FloatOk(tok) == tok.w = "#"

(***************************************************************************)
(* Regular expressions over words.  A pattern is a sequence of elements:   *)
(*   Lit(ws)      one word of ws, directly where the match stands;         *)
(*   Ws(ws)       \s+ or \s* and then one word of ws;                      *)
(*   OptWs(ws)    an optional word of ws followed by \s+, greedy;          *)
(*   Gap(dotall)  the lazy wildcard; without re.DOTALL it stops at a line  *)
(*                break;                                                   *)
(*   NumEl(sp, at, pw)  the capture group of a numeral whose glued text is *)
(*                in at, or a numeral whose glued text is in pw followed   *)
(*                by the word percent.                                     *)
(***************************************************************************)
El(t, ws, sp, dotall, at, pw) ==
    [t |-> t, ws |-> ws, sp |-> sp, dotall |-> dotall, at |-> at, pw |-> pw]

Lit(ws) == El("w", ws, "lit", FALSE, {}, {})

Ws(ws) == El("w", ws, "ws", FALSE, {}, {})

OptWs(ws) == El("opt", ws, "ws", FALSE, {}, {})

Gap(dotall) == El("gap", {}, "lit", dotall, {}, {})

NumEl(sp, at, pw) == El("num", {}, sp, FALSE, at, pw)

NoMatch == [ok |-> FALSE, start |-> 0, end |-> 0, cap |-> NoTok]

\* Whitespace may hold line breaks: the first index from i on that is not one.
RECURSIVE SkipNL(_, _)
SkipNL(s, i) ==
    IF i <= Len(s) /\ s[i].w = "nl" THEN SkipNL(s, i + 1) ELSE i

WithCap(r, tok) == IF r.ok THEN [r EXCEPT !.cap = tok] ELSE r

\* MatchFrom(p, k, s, i): elements k.. of p matched against s from word i,
\* in the order a backtracking matcher tries them; end is the index of the
\* first word after the match.
RECURSIVE MatchFrom(_, _, _, _), GapFrom(_, _, _, _)
MatchFrom(p, k, s, i) ==
    IF k > Len(p) THEN [ok |-> TRUE, start |-> 0, end |-> i, cap |-> NoTok]
    ELSE LET e == p[k]
             j == IF e.sp = "ws" THEN SkipNL(s, i) ELSE i
         IN  CASE e.t = "w" ->
                    IF j <= Len(s) /\ s[j].w \in e.ws
                    THEN MatchFrom(p, k + 1, s, j + 1)
                    ELSE NoMatch
               [] e.t = "opt" ->
                    LET r == IF j <= Len(s) /\ s[j].w \in e.ws
                             THEN MatchFrom(p, k + 1, s, j + 1)
                             ELSE NoMatch
                    IN  IF r.ok THEN r ELSE MatchFrom(p, k + 1, s, i)
               [] e.t = "gap" -> GapFrom(p, k, s, i)
               [] e.t = "num" ->
                    IF j <= Len(s) /\ IsNumeral(s[j])
                    THEN IF s[j].a \in e.at
                         THEN WithCap(MatchFrom(p, k + 1, s, j + 1), s[j])
                         ELSE LET m == SkipNL(s, j + 1)
                              IN  IF s[j].a \in e.pw /\ m <= Len(s)
                                       /\ s[m].w = "percent"
                                  THEN WithCap(MatchFrom(p, k + 1, s, m + 1), s[j])
                                  ELSE NoMatch
                    ELSE NoMatch
               [] OTHER -> NoMatch

GapFrom(p, k, s, j) ==
    LET r == MatchFrom(p, k + 1, s, j)
    IN  IF r.ok THEN r
        ELSE IF j > Len(s) THEN NoMatch
        ELSE IF ~p[k].dotall /\ s[j].w = "nl" THEN NoMatch
        ELSE GapFrom(p, k, s, j + 1)

\* re.search(pattern, s[from:]): the leftmost match starting at word from
\* or later.
RECURSIVE SearchFrom(_, _, _)
SearchFrom(p, s, from) ==
    IF from > Len(s) THEN NoMatch
    ELSE LET r == MatchFrom(p, 1, s, from)
         IN  IF r.ok THEN [r EXCEPT !.start = from]
             ELSE SearchFrom(p, s, from + 1)

Search(p, s) == SearchFrom(p, s, 1)

\* re.finditer(pattern, s): the successive non-overlapping matches.
RECURSIVE FindIterFrom(_, _, _)
FindIterFrom(p, s, from) ==
    LET m == SearchFrom(p, s, from)
    IN  IF ~m.ok THEN <<>>
        ELSE <<m>> \o FindIterFrom(p, s, m.end)

FindIter(p, s) == FindIterFrom(p, s, 1)

(***************************************************************************)
(* Context Analyzer                                                        *)
(***************************************************************************)
Some(v) == [kind |-> "some", v |-> v]

ContextRadius == 500

\* Characters a word takes in the text, its blank included.
WordChars == 12

MaxOf(a, b) == IF a >= b THEN a ELSE b

MinOf(a, b) == IF a <= b THEN a ELSE b

\* text[context_start:context_end], the offsets counted in characters; the
\* words that lie wholly inside the slice.
get_segment_context(text, start_pos, end_pos) ==
    LET context_start == MaxOf(0, start_pos - ContextRadius)
        context_end   == MinOf(Len(text) * WordChars, end_pos + ContextRadius)
        lo == (context_start + WordChars - 1) \div WordChars + 1
        hi == context_end \div WordChars
    IN  SubSeq(text, lo, hi)

PctGlued == {"%", "+%", "-%"}

IncreaseWords == {"increase", "increased", "growth", "higher"}

DecreaseWords == {"decrease", "decreased", "decline", "declined", "lower"}

GrowthPatterns ==
    << <<Lit({"increased", "grew"}), Gap(FALSE), Lit({"by"}), NumEl("ws", {"%"}, {""})>>,
       <<Lit({"decreased", "declined"}), Gap(FALSE), Lit({"by"}), NumEl("ws", {"%"}, {""})>>,
       <<NumEl("lit", PctGlued, {}), Gap(FALSE), Lit(IncreaseWords)>>,
       <<NumEl("lit", PctGlued, {}), Gap(FALSE), Lit(DecreaseWords)>>,
       <<NumEl("lit", {"+%", "-%"}, {})>> >>

\* The polarity test without the word 'decreased'.
ContextSaysDownNoDecreased(context) ==
    \E i \in 1..Len(context) : context[i].w \in {"declined", "lower"}

\* 'decreased' in context.lower() or 'declined' in ... or 'lower' in ...
ContextSaysDown(context) ==
    \E i \in 1..Len(context) : context[i].w \in {"decreased", "declined", "lower"}

\* match.group(0).startswith('-'): only the signed pattern starts its match
\* on the sign; the others start on a letter or a digit.
StartsWithMinus(n, m) == n = 5 /\ m.cap.a = "-%"

GrowthSign(context, n, m) ==
    IF ContextSaysDown(context) THEN -1
    ELSE IF StartsWithMinus(n, m) THEN -1
    ELSE 1

GROWTH_MIN == -50

GROWTH_MAX == 100

\* The range test without its lower end.
GrowthPlausibleNoFloor(growth) == growth <= GROWTH_MAX

GrowthPlausible(growth) == GROWTH_MIN <= growth /\ growth <= GROWTH_MAX

RECURSIVE GrowthLoop(_, _)
GrowthLoop(context, n) ==
    IF n > Len(GrowthPatterns) THEN NoValue
    ELSE LET m == Search(GrowthPatterns[n], context)
         IN  IF ~m.ok \/ ~FloatOk(m.cap) THEN GrowthLoop(context, n + 1)
             ELSE LET growth == GrowthSign(context, n, m) * m.cap.v
                  IN  IF GrowthPlausible(growth) THEN Some(growth)
                      ELSE GrowthLoop(context, n + 1)

extract_growth_rate_from_context(context) == GrowthLoop(context, 1)

MarginPatterns ==
    << <<Lit({"gross"}), Lit({"margin"}), Gap(FALSE), NumEl("lit", PctGlued, {"", "$"})>>,
       <<Lit({"margin"}), Gap(FALSE), NumEl("lit", PctGlued, {"", "$"})>>,
       <<NumEl("lit", PctGlued, {}), Gap(FALSE), Lit({"margin"})>> >>

MARGIN_MIN == 5

MARGIN_MAX == 60

MarginPlausible(margin) == MARGIN_MIN <= margin /\ margin <= MARGIN_MAX

RECURSIVE MarginLoop(_, _)
MarginLoop(context, n) ==
    IF n > Len(MarginPatterns) THEN NoValue
    ELSE LET m == Search(MarginPatterns[n], context)
         IN  IF ~m.ok \/ ~FloatOk(m.cap) THEN MarginLoop(context, n + 1)
             ELSE IF MarginPlausible(m.cap.v) THEN Some(m.cap.v)
             ELSE MarginLoop(context, n + 1)

extract_margin_from_context(context) == MarginLoop(context, 1)

(***************************************************************************)
(* Value Extractor: total revenue                                          *)
(***************************************************************************)
Million == 1000000

\* [\$]?(numeral): a numeral with or without its dollar sign
Amount == {"", "$"}

TotalRevenuePatterns ==
    << <<Lit({"net"}), Lit({"revenue"}), OptWs({"of", "were"}), NumEl("ws", Amount, {}),
         Ws({"million"})>>,
       <<Lit({"total"}), Ws({"net"}), Ws({"revenue"}), NumEl("ws", Amount, {}),
         Ws({"million"})>>,
       <<Lit({"revenue"}), NumEl("ws", Amount, {}), Ws({"million"})>> >>

TOTAL_MIN == 50000000

TOTAL_MAX == 500000000

\* The range test without its upper end.
TotalPlausibleNoCeiling(revenue) == TOTAL_MIN <= revenue

TotalPlausible(revenue) == TOTAL_MIN <= revenue /\ revenue <= TOTAL_MAX

RECURSIVE TotalRevenueLoop(_, _)
TotalRevenueLoop(text, n) ==
    IF n > Len(TotalRevenuePatterns) THEN NoValue
    ELSE LET m == Search(TotalRevenuePatterns[n], text)
         IN  IF ~m.ok \/ ~FloatOk(m.cap) THEN TotalRevenueLoop(text, n + 1)
             ELSE LET revenue == m.cap.v * Million
                  IN  IF TotalPlausible(revenue) THEN Some(revenue)
                      ELSE TotalRevenueLoop(text, n + 1)

extract_total_revenue(text) == TotalRevenueLoop(text, 1)

(***************************************************************************)
(* Value Extractor: segments                                               *)
(***************************************************************************)
\* ...revenues?\s+(?:of\s+)?[\$]?(numeral)\s*million
RevTail == <<Gap(TRUE), Lit({"revenue"}), OptWs({"of"}), NumEl("ws", Amount, {}),
             Ws({"million"})>>

\* ...[\$]?(numeral)\s*million
NumTail == <<Gap(TRUE), NumEl("lit", Amount, {}), Ws({"million"})>>

NetgearForBusiness == <<Lit({"netgear"}), Lit({"for"}), Lit({"business"})>>

\* segment_patterns of extract_segment_data_2025: the segments in dictionary
\* order, each with its patterns in list order.
Schema2025 ==
    << [name |-> "NETGEAR for Business",
        patterns |-> << NetgearForBusiness \o RevTail,
                        <<Lit({"nfb"})>> \o RevTail,
                        <<Lit({"business"}), Gap(TRUE), Lit({"segment"})>> \o NumTail >>],
       [name |-> "Home Networking",
        patterns |-> << <<Lit({"home"}), Lit({"networking"})>> \o RevTail,
                        <<Lit({"home"}), Gap(TRUE), Lit({"networking"})>> \o NumTail >>],
       [name |-> "Mobile",
        patterns |-> << <<Lit({"mobile"})>> \o RevTail,
                        <<Lit({"mobile"}), Gap(TRUE), Lit({"segment"})>> \o NumTail >>] >>

\* segment_patterns of extract_segment_data_2024 (the two-segment fallback)
Schema2024Legacy ==
    << [name |-> "Connected Home",
        patterns |-> << <<Lit({"connected"}), Lit({"home"})>> \o RevTail,
                        <<Lit({"consumer"})>> \o RevTail >>],
       [name |-> "NETGEAR for Business",
        patterns |-> << NetgearForBusiness \o RevTail,
                        <<Lit({"business"})>> \o RevTail >>] >>

\* segment_patterns of extract_segment_data_2023
Schema2023 ==
    << [name |-> "Connected Home",
        patterns |-> << <<Lit({"connected"}), Lit({"home"})>> \o RevTail >>],
       [name |-> "NETGEAR for Business",
        patterns |-> << NetgearForBusiness \o RevTail,
                        <<Lit({"business"}), Gap(TRUE), Lit({"segment"})>> \o RevTail >>] >>

SEG_MIN == 10000000

SEG_MAX == 200000000

SEG_MAX_2023 == 300000000

\* The band test without its upper end.
SegmentPlausibleNoCeiling(revenue, hi) == SEG_MIN <= revenue

SegmentPlausible(revenue, hi) == SEG_MIN <= revenue /\ revenue <= hi

SegmentData(name, revenue, text, m) ==
    LET segment_context ==
            get_segment_context(text, (m.start - 1) * WordChars, (m.end - 1) * WordChars)
    IN  [category_name |-> name,
         revenue       |-> revenue,
         growth_rate   |-> extract_growth_rate_from_context(segment_context),
         gross_margin  |-> extract_margin_from_context(segment_context)]

\* for match in matches: ... break on the first accepted value, continue on
\* a ValueError or a value outside the band.
RECURSIVE MatchLoop(_, _, _, _, _)
MatchLoop(name, text, hi, matches, k) ==
    IF k > Len(matches) THEN <<>>
    ELSE LET m == matches[k]
         IN  IF FloatOk(m.cap) /\ SegmentPlausible(m.cap.v * Million, hi)
             THEN << SegmentData(name, m.cap.v * Million, text, m) >>
             ELSE MatchLoop(name, text, hi, matches, k + 1)

\* for pattern in patterns: the break above leaves the loop over the
\* matches only, so every pattern of the segment is run.
RECURSIVE PatternLoop(_, _, _, _, _)
PatternLoop(name, patterns, text, hi, n) ==
    IF n > Len(patterns) THEN <<>>
    ELSE MatchLoop(name, text, hi, FindIter(patterns[n], text), 1)
           \o PatternLoop(name, patterns, text, hi, n + 1)

\* for segment_name, patterns in segment_patterns.items()
RECURSIVE SegmentLoop(_, _, _, _)
SegmentLoop(schema, text, hi, g) ==
    IF g > Len(schema) THEN <<>>
    ELSE PatternLoop(schema[g].name, schema[g].patterns, text, hi, 1)
           \o SegmentLoop(schema, text, hi, g + 1)

extract_segment_data_2025(text) == SegmentLoop(Schema2025, text, SEG_MAX, 1)

MinSegmentsForNewSchema == 2

extract_segment_data_2024(text) ==
    LET three_segment_data == extract_segment_data_2025(text)
    IN  IF Len(three_segment_data) >= MinSegmentsForNewSchema
        THEN three_segment_data
        ELSE SegmentLoop(Schema2024Legacy, text, SEG_MAX, 1)

extract_segment_data_2023(text) == SegmentLoop(Schema2023, text, SEG_MAX_2023, 1)

(***************************************************************************)
(* Segmentation Schema Selector: process_pdf_file, the choice by year      *)
(***************************************************************************)
CUTOVER_NEW == 2025

CUTOVER_LEGACY == 2024

\* The choice with the first cutover one year late.
SelectSegmentsLateCutover(year, text) ==
    IF year > CUTOVER_NEW THEN extract_segment_data_2025(text)
    ELSE IF year >= CUTOVER_LEGACY THEN extract_segment_data_2024(text)
    ELSE extract_segment_data_2023(text)

SelectSegments(year, text) ==
    IF year >= CUTOVER_NEW THEN extract_segment_data_2025(text)
    ELSE IF year >= CUTOVER_LEGACY THEN extract_segment_data_2024(text)
    ELSE extract_segment_data_2023(text)

(***************************************************************************)
(* Persistence boundary and save_enhanced_data                             *)
(***************************************************************************)
OFFICIAL == "official_pdf_report"

NTGR == "ntgr-id"

\* An existence check that ignores the period's own source filter and looks
\* for rows of another source.
FinancialExistingOtherSource(table, company_id, period) ==
    {i \in 1..Len(table) : /\ table[i].company_id = company_id
                           /\ table[i].period = period
                           /\ table[i].data_source /= OFFICIAL}

\* select('id').eq('company_id', ..).eq('period', ..).eq('data_source', ..)
FinancialExisting(table, company_id, period) ==
    {i \in 1..Len(table) : /\ table[i].company_id = company_id
                           /\ table[i].period = period
                           /\ table[i].data_source = OFFICIAL}

\* An existence check that finds nothing.
SegmentExistingNothing(table, company_id, period, category_name) == {}

\* An existence check that does not look at the source.
SegmentExistingAnySource(table, company_id, period, category_name) ==
    {i \in 1..Len(table) : /\ table[i].company_id = company_id
                           /\ table[i].period = period
                           /\ table[i].category_name = category_name}

\* An existence check that looks for rows of another source.
SegmentExistingOtherSource(table, company_id, period, category_name) ==
    {i \in 1..Len(table) : /\ table[i].company_id = company_id
                           /\ table[i].period = period
                           /\ table[i].category_name = category_name
                           /\ table[i].data_source /= OFFICIAL}

\* select('id').eq('company_id', ..).eq('period', ..).eq('category_name', ..)
\*   .eq('data_source', ..)
SegmentExisting(table, company_id, period, category_name) ==
    {i \in 1..Len(table) : /\ table[i].company_id = company_id
                           /\ table[i].period = period
                           /\ table[i].category_name = category_name
                           /\ table[i].data_source = OFFICIAL}

FinancialRecord(company_id, period_info, total_revenue) ==
    [company_id     |-> company_id,
     period         |-> period_info.period,
     fiscal_year    |-> period_info.fiscal_year,
     fiscal_quarter |-> period_info.fiscal_quarter,
     revenue        |-> total_revenue,
     data_source    |-> OFFICIAL]

\* A variant that rates each segment against itself.
RevenuePercentageOfItself(revenue, total_revenue) ==
    IF total_revenue > 0
    THEN <<(revenue \div Million) * 100, revenue \div Million>>
    ELSE <<0, 1>>

\* segment['revenue'] / total_revenue * 100, kept as the exact quotient
\* <<numerator, denominator>> of the two amounts in millions.
RevenuePercentage(revenue, total_revenue) ==
    IF total_revenue > 0
    THEN <<(revenue \div Million) * 100, total_revenue \div Million>>
    ELSE <<0, 1>>

SegmentRecord(company_id, period_info, total_revenue, segment) ==
    [company_id         |-> company_id,
     period             |-> period_info.period,
     fiscal_year        |-> period_info.fiscal_year,
     fiscal_quarter     |-> period_info.fiscal_quarter,
     category_level     |-> 1,
     category_name      |-> segment.category_name,
     revenue            |-> segment.revenue,
     revenue_percentage |-> RevenuePercentage(segment.revenue, total_revenue),
     data_source        |-> OFFICIAL,
     estimation_method  |-> "enhanced_pdf_extraction",
     yoy_growth         |-> segment.growth_rate,
     gross_margin       |-> segment.gross_margin]

Procs == {1, 2}

\* The runs of the extractor that are started: one operator-triggered run.
Running == {1}

IdleProc ==
    [pc |-> "idle", filename |-> <<>>, text |-> <<>>, period_info |-> NoValue,
     total_revenue |-> NoValue, segments |-> <<>>, idx |-> 0,
     company_id |-> "", financial_saved |-> FALSE, segments_saved |-> 0,
     clean |-> TRUE, before |-> <<>>, outcome |-> NoValue, stages |-> <<>>,
     overlapped |-> FALSE]

\* Another run is under way.
OthersUnderWay(p) == \E q \in Procs \ {p} : proc[q].pc \notin {"idle", "done"}

Failure(reason) == [kind |-> "outcome", success |-> FALSE, reason |-> reason]

\* The outcomes of one call across the persistence boundary.
CheckOutcomes == {"ok", "raise"}

InsertOutcomes == {"ok", "nodata", "raise"}

\* Calls of process_pdf_file in one behaviour.
MaxCalls == 2

\* Persistence calls that fail in one behaviour.
MaxFailures == 1

\* A persistence call ends as o; failures' counts the calls that failed.
Persistence(o) ==
    /\ o /= "ok" => failures < MaxFailures
    /\ failures' = IF o = "ok" THEN failures ELSE failures + 1

\* A variant that reads the text before it resolves the period.
ExtractedTextFirst(filename, text) ==
    LET period_info == parse_period_from_filename(filename)
    IN  IF text = <<>>
        THEN [pc |-> "done", period_info |-> NoValue, total_revenue |-> NoValue,
              segments |-> <<>>, outcome |-> Failure("text_extraction_failed"),
              stages |-> <<"text">>]
        ELSE IF period_info.kind = "raise"
        THEN [pc |-> "done", period_info |-> NoValue, total_revenue |-> NoValue,
              segments |-> <<>>, outcome |-> period_info, stages |-> <<"text", "period">>]
        ELSE IF period_info.kind = "none"
        THEN [pc |-> "done", period_info |-> NoValue, total_revenue |-> NoValue,
              segments |-> <<>>, outcome |-> Failure("period_parse_failed"),
              stages |-> <<"text", "period">>]
        ELSE LET total_revenue == extract_total_revenue(text)
             IN  IF total_revenue = NoValue
                 THEN [pc |-> "done", period_info |-> period_info,
                       total_revenue |-> NoValue, segments |-> <<>>,
                       outcome |-> Failure("revenue_extraction_failed"),
                       stages |-> <<"text", "period", "total_revenue">>]
                 ELSE [pc |-> "get_company_id", period_info |-> period_info,
                       total_revenue |-> total_revenue,
                       segments |-> SelectSegments(period_info.fiscal_year, text),
                       outcome |-> NoValue,
                       stages |-> <<"text", "period", "total_revenue", "segments", "save">>]

\* A variant that extracts the segments before it looks for the total.
ExtractedSegmentsFirst(filename, text) ==
    LET period_info == parse_period_from_filename(filename)
    IN  IF period_info.kind = "raise"
        THEN [pc |-> "done", period_info |-> NoValue, total_revenue |-> NoValue,
              segments |-> <<>>, outcome |-> period_info, stages |-> <<"period">>]
        ELSE IF period_info.kind = "none"
        THEN [pc |-> "done", period_info |-> NoValue, total_revenue |-> NoValue,
              segments |-> <<>>, outcome |-> Failure("period_parse_failed"),
              stages |-> <<"period">>]
        ELSE IF text = <<>>
        THEN [pc |-> "done", period_info |-> period_info, total_revenue |-> NoValue,
              segments |-> <<>>, outcome |-> Failure("text_extraction_failed"),
              stages |-> <<"period", "text">>]
        ELSE LET segments == SelectSegments(period_info.fiscal_year, text)
                 total_revenue == extract_total_revenue(text)
             IN  IF total_revenue = NoValue
                 THEN [pc |-> "done", period_info |-> period_info,
                       total_revenue |-> NoValue, segments |-> segments,
                       outcome |-> Failure("revenue_extraction_failed"),
                       stages |-> <<"period", "text", "segments", "total_revenue">>]
                 ELSE [pc |-> "get_company_id", period_info |-> period_info,
                       total_revenue |-> total_revenue, segments |-> segments,
                       outcome |-> NoValue,
                       stages |-> <<"period", "text", "segments", "total_revenue", "save">>]


\* process_pdf_file up to the call of save_enhanced_data: period, text,
\* total revenue, segments.  The text is what extract_text_from_pdf returned
\* (empty when the extraction failed).
Extracted(filename, text) ==
    LET period_info == parse_period_from_filename(filename)
    IN  IF period_info.kind = "raise"
        THEN [pc |-> "done", period_info |-> NoValue, total_revenue |-> NoValue,
              segments |-> <<>>, outcome |-> period_info, stages |-> <<"period">>]
        ELSE IF period_info.kind = "none"
        THEN [pc |-> "done", period_info |-> NoValue, total_revenue |-> NoValue,
              segments |-> <<>>, outcome |-> Failure("period_parse_failed"),
              stages |-> <<"period">>]
        ELSE IF text = <<>>
        THEN [pc |-> "done", period_info |-> period_info, total_revenue |-> NoValue,
              segments |-> <<>>, outcome |-> Failure("text_extraction_failed"),
              stages |-> <<"period", "text">>]
        ELSE LET total_revenue == extract_total_revenue(text)
             IN  IF total_revenue = NoValue
                 THEN [pc |-> "done", period_info |-> period_info,
                       total_revenue |-> NoValue, segments |-> <<>>,
                       outcome |-> Failure("revenue_extraction_failed"),
                       stages |-> <<"period", "text", "total_revenue">>]
                 ELSE [pc |-> "get_company_id", period_info |-> period_info,
                       total_revenue |-> total_revenue,
                       segments |-> SelectSegments(period_info.fiscal_year, text),
                       outcome |-> NoValue,
                       stages |-> <<"period", "text", "total_revenue", "segments", "save">>]

Snapshot == [financial_data |-> financial_data, product_line_revenue |-> product_line_revenue]

\* process_pdf_file(pdf_path), lines 437-469; x is Extracted(filename, text)
ProcessPdfFile(p, filename, text, x) ==
    /\ proc[p].pc = "idle"
    /\ calls < MaxCalls
    /\ calls' = calls + 1
    /\ proc' = [proc EXCEPT ![p] =
                   [@ EXCEPT !.pc = x.pc, !.filename = filename, !.text = text,
                             !.period_info = x.period_info,
                             !.total_revenue = x.total_revenue,
                             !.segments = x.segments, !.idx = 0,
                             !.financial_saved = FALSE, !.segments_saved = 0,
                             !.clean = TRUE, !.before = Snapshot,
                             !.outcome = x.outcome, !.stages = x.stages,
                             !.overlapped = OthersUnderWay(p)]]
    /\ UNCHANGED <<call, run, store, last, failures>>

\* get_company_id(): the cached id, or the first NTGR row; a ValueError
\* (no row) or an error of the client leaves save_enhanced_data and
\* process_pdf_file, which do not catch it.
GetCompanyId(p, o) ==
    /\ proc[p].pc = "get_company_id"
    /\ IF proc[p].company_id /= "" THEN o = "ok" /\ UNCHANGED failures
       ELSE Persistence(o)
    /\ proc' = [proc EXCEPT ![p] =
          IF @.company_id /= ""
          THEN [@ EXCEPT !.pc = "financial_check"]
          ELSE IF o = "raise"
          THEN [@ EXCEPT !.pc = "done", !.clean = FALSE, !.outcome = Raised("Exception")]
          ELSE IF companies = <<>>
          THEN [@ EXCEPT !.pc = "done", !.clean = FALSE, !.outcome = Raised("ValueError")]
          ELSE [@ EXCEPT !.pc = "financial_check", !.company_id = companies[1]]]
    /\ UNCHANGED <<call, run, store, last, calls>>

\* A variant that gives the remaining segments up.
NextSegmentGivesUp(r, idx) ==
    [r EXCEPT !.pc = "segment_check", !.idx = Len(r.segments) + 1]

\* The position after the financial record or after segment idx is done.
NextSegment(r, idx) == [r EXCEPT !.pc = "segment_check", !.idx = idx + 1]

\* lines 371-375: the existence check of the financial record
FinancialCheck(p, o) ==
    /\ proc[p].pc = "financial_check"
    /\ Persistence(o)
    /\ proc' = [proc EXCEPT ![p] =
          IF o = "raise" THEN [NextSegment(@, 0) EXCEPT !.clean = FALSE]
          ELSE IF FinancialExisting(financial_data, @.company_id, @.period_info.period) /= {}
          THEN NextSegment(@, 0)
          ELSE [@ EXCEPT !.pc = "financial_insert"]]
    /\ UNCHANGED <<call, run, store, last, calls>>

\* lines 376-390: the insert of the financial record
FinancialInsert(p, o) ==
    /\ proc[p].pc = "financial_insert"
    /\ Persistence(o)
    /\ financial_data' =
          IF o = "ok"
          THEN Append(financial_data,
                      FinancialRecord(proc[p].company_id, proc[p].period_info,
                                      proc[p].total_revenue.v))
          ELSE financial_data
    /\ proc' = [proc EXCEPT ![p] =
          IF o = "ok" THEN [NextSegment(@, 0) EXCEPT !.financial_saved = TRUE]
          ELSE [NextSegment(@, 0) EXCEPT !.clean = FALSE]]
    /\ UNCHANGED <<call, run, companies, product_line_revenue, last, calls>>

\* lines 394-403: the existence check of segment idx
SegmentCheck(p, o) ==
    /\ proc[p].pc = "segment_check"
    /\ proc[p].idx <= Len(proc[p].segments)
    /\ Persistence(o)
    /\ proc' = [proc EXCEPT ![p] =
          IF o = "raise" THEN [NextSegment(@, @.idx) EXCEPT !.clean = FALSE]
          ELSE IF SegmentExisting(product_line_revenue, @.company_id,
                                  @.period_info.period,
                                  @.segments[@.idx].category_name) /= {}
          THEN NextSegment(@, @.idx)
          ELSE [@ EXCEPT !.pc = "segment_insert"]]
    /\ UNCHANGED <<call, run, store, last, calls>>

\* lines 404-433: the insert of segment idx
SegmentInsert(p, o) ==
    /\ proc[p].pc = "segment_insert"
    /\ Persistence(o)
    /\ product_line_revenue' =
          IF o = "ok"
          THEN Append(product_line_revenue,
                      SegmentRecord(proc[p].company_id, proc[p].period_info,
                                    proc[p].total_revenue.v,
                                    proc[p].segments[proc[p].idx]))
          ELSE product_line_revenue
    /\ proc' = [proc EXCEPT ![p] =
          IF o = "ok"
          THEN [NextSegment(@, @.idx) EXCEPT !.segments_saved = @ + 1]
          ELSE [NextSegment(@, @.idx) EXCEPT !.clean = FALSE]]
    /\ UNCHANGED <<call, run, companies, financial_data, last, calls>>

\* lines 435 and 474-481: the segments are done, the outcome is returned
ReturnSuccess(p) ==
    /\ proc[p].pc = "segment_check"
    /\ proc[p].idx > Len(proc[p].segments)
    /\ proc' = [proc EXCEPT ![p].pc = "done",
                            ![p].outcome =
                                [kind |-> "outcome", success |-> TRUE,
                                 period |-> proc[p].period_info.period,
                                 total_revenue |-> proc[p].total_revenue.v,
                                 segments_count |-> Len(proc[p].segments),
                                 financial_saved |-> proc[p].financial_saved,
                                 segments_saved |-> proc[p].segments_saved]]
    /\ UNCHANGED <<call, run, store, last, calls, failures>>

NoCall == [filename |-> <<>>, text |-> <<>>, clean |-> FALSE, outcome |-> NoValue]

\* The caller takes the outcome; the extractor object is ready for the
\* next document (it keeps its cached company id).
Returned(p) ==
    /\ proc[p].pc = "done"
    /\ last' = [filename |-> proc[p].filename, text |-> proc[p].text,
                clean |-> proc[p].clean, outcome |-> proc[p].outcome]
    /\ proc' = [proc EXCEPT ![p] = [IdleProc EXCEPT !.company_id = proc[p].company_id]]
    /\ UNCHANGED <<call, run, store, calls, failures>>

(***************************************************************************)
(* Bounded inputs                                                          *)
(***************************************************************************)
SeqsUpTo(S, n) == UNION {[1..m -> S] : m \in 0..n}

RECURSIVE Flatten(_)
Flatten(cs) == IF cs = <<>> THEN <<>> ELSE Head(cs) \o Flatten(Tail(cs))

\* The texts made of at most n phrases of a phrase set.
TextsOf(phrases, n) == {Flatten(cs) : cs \in SeqsUpTo(phrases, n)}

Idle == [fn |-> "none", arg |-> <<>>, ret |-> NoValue]

\* run_extraction has not been called.
NoRun ==
    [extractor |-> "none", pc |-> "none", files |-> <<>>, i |-> 0,
     processed_count |-> 0, successful_count |-> 0, results |-> <<>>, ret |-> NoValue]

Input(x) == [fn |-> "input", arg |-> x, ret |-> NoValue]

PipelineIdle ==
    /\ companies = <<>>
    /\ financial_data = <<>>
    /\ product_line_revenue = <<>>
    /\ proc = [p \in Procs |-> IdleProc]
    /\ last = NoCall
    /\ calls = 0
    /\ failures = 0
    /\ run = NoRun

\* method fn applied to the input: ret is what it returns
Apply(fn, ret) ==
    /\ call.fn = "input"
    /\ call' = [fn |-> fn, arg |-> call.arg, ret |-> ret]
    /\ UNCHANGED pipeline

(***************************************************************************)
(* Period Resolver: both parse_period_from_filename on bounded filenames   *)
(***************************************************************************)
MaxNameLen == 4

NameAlphabet ==
    {QWord(q, TRUE) : q \in 1..4} \cup {QWord(1, FALSE), QWord(4, FALSE)}
      \cup {TQuarter, TAndFullYear, TQn(3), TDigit(2)}
      \cup {TYear(y) : y \in {2024, 2025}}

MaxNamePhrases == 2

NamePhrases ==
    { <<QWord(1, TRUE), TQuarter, TYear(2025)>>, <<QWord(1, FALSE), TQuarter, TYear(2025)>>,
      <<TQn(3), TYear(2024)>>, <<TQuarter, TDigit(2), TYear(2024)>>,
      <<QWord(4, TRUE), TQuarter, TAndFullYear, TYear(2024)>>, <<TWord>> }

FileNames == SeqsUpTo(NameAlphabet, MaxNameLen) \cup TextsOf(NamePhrases, MaxNamePhrases)

InitPeriod == call \in {Input(f) : f \in FileNames} /\ PipelineIdle

CallParseEnhanced ==
    Apply("enhanced.parse_period_from_filename", parse_period_from_filename(call.arg))

CallParseBasic ==
    Apply("basic.parse_period_from_filename", basic_parse_period_from_filename(call.arg))

NextPeriod == CallParseEnhanced \/ CallParseBasic

SpecPeriod == InitPeriod /\ [][NextPeriod]_vars

(***************************************************************************)
(* extract_total_revenue on bounded texts                                  *)
(***************************************************************************)
MaxRevenuePhrases == 4

Amt(v) == <<Dollar(v), W("million")>>

RevenuePhrases ==
    { <<W("net"), W("revenue")>>, <<W("net"), W("revenue"), W("were")>>,
      <<W("total"), W("net"), W("revenue")>>, <<W("revenue")>>,
      <<Commas, W("million")>> }
      \cup {Amt(v) : v \in {49, 50, 500, 501}}

RevenueTexts == TextsOf(RevenuePhrases, MaxRevenuePhrases)

InitRevenue == call \in {Input(t) : t \in RevenueTexts} /\ PipelineIdle

CallExtractTotalRevenue == Apply("extract_total_revenue", extract_total_revenue(call.arg))

NextRevenue == CallExtractTotalRevenue

SpecRevenue == InitRevenue /\ [][NextRevenue]_vars

(***************************************************************************)
(* extract_segment_data_2025 / _2024 / _2023 on bounded texts              *)
(***************************************************************************)
MaxSegmentPhrases == 3

MaxSentences == 3

RevAmt(v) == <<W("revenue"), W("of"), Dollar(v), W("million")>>

NFBk == <<W("netgear"), W("for"), W("business")>>

HNk == <<W("home"), W("networking")>>

CHk == <<W("connected"), W("home")>>

SegmentPhrases ==
    { NFBk, HNk, CHk, <<W("segment")>> }
      \cup {RevAmt(v) : v \in {9, 10, 200, 201, 300, 301}}

Sentences ==
    { NFBk \o RevAmt(80),
      NFBk \o <<W("segment")>> \o RevAmt(85),
      NFBk \o RevAmt(250),
      HNk \o RevAmt(61),
      HNk \o <<W("revenue"), W("decreased"), W("by"), Pct(8), W("to")>> \o Amt(62),
      <<W("mobile")>> \o RevAmt(20),
      CHk \o RevAmt(90),
      <<W("gross"), W("margin"), W("of"), Pct(35)>> }

SegmentTexts ==
    TextsOf(SegmentPhrases, MaxSegmentPhrases) \cup TextsOf(Sentences, MaxSentences)

InitSegments == call \in {Input(t) : t \in SegmentTexts} /\ PipelineIdle

CallSegments2025 == Apply("extract_segment_data_2025", extract_segment_data_2025(call.arg))

CallSegments2024 == Apply("extract_segment_data_2024", extract_segment_data_2024(call.arg))

CallSegments2023 == Apply("extract_segment_data_2023", extract_segment_data_2023(call.arg))

NextSegments == CallSegments2025 \/ CallSegments2024 \/ CallSegments2023

SpecSegments == InitSegments /\ [][NextSegments]_vars

(***************************************************************************)
(* The choice of the extraction by fiscal year                             *)
(***************************************************************************)
FirstYear == 2021

LastYear == 2027

FiscalYears == FirstYear..LastYear

MaxSchemaSentences == 2

InitSchema ==
    /\ call \in {Input([year |-> y, text |-> t]) :
                    y \in FiscalYears, t \in TextsOf(Sentences, MaxSchemaSentences)}
    /\ PipelineIdle

CallSelectSegments ==
    Apply("process_pdf_file.segments", SelectSegments(call.arg.year, call.arg.text))

NextSchema == CallSelectSegments

SpecSchema == InitSchema /\ [][NextSchema]_vars

(***************************************************************************)
(* extract_growth_rate_from_context / extract_margin_from_context          *)
(***************************************************************************)
MaxContextWords == 3

ContextWords ==
    { W("increased"), W("decreased"), W("by"), W("decline"), W("margin"), NL,
      SignedPct(-1, 8), Num(8), W("percent") }
      \cup {Pct(v) : v \in {4, 5, 50, 51, 60, 61, 100, 101}}

MaxContextPhrases == 3

ContextPhrases ==
    { <<W("decreased"), W("by"), Pct(8)>>, <<W("increased"), W("by"), Pct(8)>>,
      <<W("decreased"), W("by"), Pct(51)>>,
      <<Pct(8), W("decline")>>, <<Pct(9), W("decrease")>>, <<SignedPct(-1, 8)>>,
      <<W("lower")>>, <<W("revenue")>>, <<W("to"), Dollar(61), W("million")>>, <<NL>> }

Contexts ==
    SeqsUpTo(ContextWords, MaxContextWords) \cup TextsOf(ContextPhrases, MaxContextPhrases)

InitContext == call \in {Input(c) : c \in Contexts} /\ PipelineIdle

CallGrowth ==
    Apply("extract_growth_rate_from_context", extract_growth_rate_from_context(call.arg))

CallMargin ==
    Apply("extract_margin_from_context", extract_margin_from_context(call.arg))

NextContext == CallGrowth \/ CallMargin

SpecContext == InitContext /\ [][NextContext]_vars

(***************************************************************************)
(* The pipeline: sequential calls of process_pdf_file on a store           *)
(***************************************************************************)
DocNames ==
    { <<QWord(1, TRUE), TQuarter, TYear(2025)>>,
      <<QWord(4, TRUE), TQuarter, TYear(2024)>>,
      <<QWord(4, TRUE), TQuarter, TAndFullYear, TYear(2024)>>,
      <<TWord>> }

NetRevenue(v) == <<W("net"), W("revenue"), W("were")>> \o Amt(v)

DocTexts ==
    { <<>>,
      NFBk \o RevAmt(80),
      NetRevenue(182) \o NFBk \o <<W("segment")>> \o RevAmt(80),
      NetRevenue(182) \o NFBk \o RevAmt(85) \o HNk \o RevAmt(61)
        \o <<W("mobile")>> \o RevAmt(20) }

\* The texts of the documents of a directory: those of DocTexts, a report
\* whose total is a run of commas, and one whose segment exceeds its total.
RunTexts ==
    DocTexts \cup
    { <<W("net"), W("revenue"), W("were"), Commas, W("million")>>,
      NetRevenue(60) \o NFBk \o RevAmt(150) }

\* What process_pdf_file extracts from each document.
ExtractedOf == [f \in DocNames, t \in RunTexts |-> Extracted(f, t)]

\* Rows another data source wrote before the run.
EstimatedRow ==
    [company_id |-> NTGR, period |-> PeriodLabel(4, 2024), fiscal_year |-> 2024,
     fiscal_quarter |-> 4, category_level |-> 1,
     category_name |-> "NETGEAR for Business", revenue |-> 70 * Million,
     revenue_percentage |-> <<7000, 182>>, data_source |-> "estimated",
     estimation_method |-> "manual", yoy_growth |-> NoValue, gross_margin |-> NoValue]

OfficialRow == [EstimatedRow EXCEPT !.data_source = OFFICIAL, !.revenue = 75 * Million]

\* A financial row the crawler wrote before the run.
AlphaVantageRow ==
    [company_id |-> NTGR, period |-> PeriodLabel(4, 2024), fiscal_year |-> 2024,
     fiscal_quarter |-> 4, revenue |-> 180 * Million, data_source |-> "alpha_vantage"]

Init ==
    /\ call = Idle
    /\ companies \in {<<>>, <<NTGR>>}
    /\ financial_data = <<>>
    /\ product_line_revenue \in {<<>>, <<EstimatedRow>>, <<OfficialRow>>}
    /\ proc = [p \in Procs |-> IdleProc]
    /\ last = NoCall
    /\ calls = 0
    /\ failures = 0
    /\ run = NoRun

Step(p) ==
    \/ \E f \in DocNames, t \in DocTexts : ProcessPdfFile(p, f, t, ExtractedOf[f, t])
    \/ \E o \in CheckOutcomes : GetCompanyId(p, o)
    \/ \E o \in CheckOutcomes : FinancialCheck(p, o)
    \/ \E o \in InsertOutcomes : FinancialInsert(p, o)
    \/ \E o \in CheckOutcomes : SegmentCheck(p, o)
    \/ \E o \in InsertOutcomes : SegmentInsert(p, o)
    \/ ReturnSuccess(p)
    \/ Returned(p)

Next == \E p \in Running : Step(p)

Spec == Init /\ [][Next]_vars

(***************************************************************************)
(* Two runs of the enhanced extractor on one document, interleaved         *)
(***************************************************************************)
InitRace ==
    /\ call = Idle
    /\ companies = <<NTGR>>
    /\ financial_data = <<>>
    /\ product_line_revenue \in {<<>>, <<EstimatedRow>>}
    /\ proc = [p \in Procs |-> IdleProc]
    /\ last = NoCall
    /\ calls = 0
    /\ failures = 0
    /\ run = NoRun

\* The document the other run has, if it has one.
SameDocument(p, f, t) ==
    \A q \in Procs \ {p} :
        proc[q].pc /= "idle" => proc[q].filename = f /\ proc[q].text = t

RaceStep(p) ==
    \/ \E f \in DocNames, t \in DocTexts :
          SameDocument(p, f, t) /\ ProcessPdfFile(p, f, t, ExtractedOf[f, t])
    \/ \E o \in CheckOutcomes : GetCompanyId(p, o)
    \/ \E o \in CheckOutcomes : FinancialCheck(p, o)
    \/ \E o \in InsertOutcomes : FinancialInsert(p, o)
    \/ \E o \in CheckOutcomes : SegmentCheck(p, o)
    \/ \E o \in InsertOutcomes : SegmentInsert(p, o)
    \/ ReturnSuccess(p)

NextRace == \E p \in Procs : RaceStep(p)

SpecRace == InitRace /\ [][NextRace]_vars

(***************************************************************************)
(* The other writers of product_line_revenue: the crawler's estimates, the *)
(* dataset script's segment model and the clean-up of estimates            *)
(***************************************************************************)
\* product_lines of update_product_line_estimates: level, name, share in
\* percent.  The names stand for the Chinese labels of the source, in its
\* order.
ProductLines ==
    << [level |-> 1, name |-> "consumer networking", percentage |-> 68],
       [level |-> 1, name |-> "commercial and enterprise", percentage |-> 22],
       [level |-> 1, name |-> "services and software", percentage |-> 10],
       [level |-> 2, name |-> "wifi routers", percentage |-> 40],
       [level |-> 2, name |-> "extenders and mesh", percentage |-> 18],
       [level |-> 2, name |-> "network storage", percentage |-> 10],
       [level |-> 2, name |-> "enterprise routers", percentage |-> 10],
       [level |-> 2, name |-> "switches", percentage |-> 8],
       [level |-> 2, name |-> "wireless access points", percentage |-> 4],
       [level |-> 2, name |-> "armor security", percentage |-> 5],
       [level |-> 2, name |-> "insight management", percentage |-> 3],
       [level |-> 2, name |-> "other services", percentage |-> 2] >>

\* int(revenue * share): exact for the amounts in whole millions the
\* financial records hold.
ShareOf(revenue, percentage) == (revenue \div 100) * percentage

EstimateRecord(company_id, period, year, quarter, revenue, product) ==
    [company_id         |-> company_id,
     period             |-> period,
     fiscal_year        |-> year,
     fiscal_quarter     |-> quarter,
     category_level     |-> product.level,
     category_name      |-> product.name,
     revenue            |-> ShareOf(revenue, product.percentage),
     revenue_percentage |-> <<product.percentage, 1>>,
     data_source        |-> "estimated",
     estimation_method  |-> "financial_data_based",
     yoy_growth         |-> Unmodelled,
     gross_margin       |-> Unmodelled]

\* delete().eq('company_id', ..).eq('period', ..)
WithoutPeriod(table, company_id, period) ==
    LET Stays(r) == ~(r.company_id = company_id /\ r.period = period)
    IN  SelectSeq(table, Stays)

EstimateOutcomes == {"ok", "delete_raise", "insert_raise"}

\* The table after update_product_line_estimates; its except clause logs
\* and goes on.
update_product_line_estimates(table, company_id, period, year, quarter, revenue, o) ==
    IF o = "delete_raise" THEN table
    ELSE IF o = "insert_raise" THEN WithoutPeriod(table, company_id, period)
    ELSE WithoutPeriod(table, company_id, period)
           \o [k \in 1..Len(ProductLines) |->
                 EstimateRecord(company_id, period, year, quarter, revenue,
                                ProductLines[k])]

\* order('fiscal_year', desc).order('fiscal_quarter', desc).limit(1): the
\* records of the company no other record follows.
LatestFinancial(table, company_id) ==
    {i \in 1..Len(table) :
        /\ table[i].company_id = company_id
        /\ \A j \in 1..Len(table) :
              table[j].company_id = company_id =>
                 \/ table[j].fiscal_year < table[i].fiscal_year
                 \/ /\ table[j].fiscal_year = table[i].fiscal_year
                    /\ table[j].fiscal_quarter <= table[i].fiscal_quarter}

\* No extraction is under way: the scripts are run one after another.
NoneUnderWay == \A p \in Procs : proc[p].pc = "idle"

\* `if not revenue': a revenue the scripts take as present.  The financial
\* records here are the crawler's and the enhanced extractor's, whose
\* revenue is a number.
HasRevenue(r) == r.revenue /= 0

\* update_enhanced_data_based_on_financials('NTGR'), on the product lines.
UpdateEnhancedData(o) ==
    /\ NoneUnderWay
    /\ companies /= <<>>
    /\ \E i \in LatestFinancial(financial_data, companies[1]) :
          /\ HasRevenue(financial_data[i])
          /\ product_line_revenue' =
                update_product_line_estimates(product_line_revenue, companies[1],
                    financial_data[i].period, financial_data[i].fiscal_year,
                    financial_data[i].fiscal_quarter, financial_data[i].revenue, o)
    /\ UNCHANGED <<call, companies, financial_data, proc, last, calls, failures, run>>

\* segments of update_2024_business_segments.
SegmentModel ==
    << [category_name |-> "NETGEAR for Business", revenue_percentage |-> 47],
       [category_name |-> "Home Networking", revenue_percentage |-> 38],
       [category_name |-> "Mobile", revenue_percentage |-> 15] >>

SEGMENT_MODEL_YEAR == 2024

SegmentModelRecord(company_id, financial, segment) ==
    [company_id         |-> company_id,
     period             |-> financial.period,
     fiscal_year        |-> SEGMENT_MODEL_YEAR,
     fiscal_quarter     |-> financial.fiscal_quarter,
     category_level     |-> 1,
     category_name      |-> segment.category_name,
     revenue            |-> ShareOf(financial.revenue, segment.revenue_percentage),
     revenue_percentage |-> <<segment.revenue_percentage, 1>>,
     data_source        |-> "updated_segment_model",
     estimation_method  |-> "three_segment_transition",
     yoy_growth         |-> Unmodelled,
     gross_margin       |-> Unmodelled]

\* The financial records of the year with a revenue, in the order of the
\* table.
FinancialOfYear(table, company_id, year) ==
    LET Taken(r) == r.company_id = company_id /\ r.fiscal_year = year
    IN  SelectSeq(table, Taken)

\* delete().eq('company_id', ..).eq('fiscal_year', 2024)
WithoutYear(table, company_id, year) ==
    LET Stays(r) == ~(r.company_id = company_id /\ r.fiscal_year = year)
    IN  SelectSeq(table, Stays)

\* The records of the first n quarters that have a revenue.
RECURSIVE SegmentModelRecords(_, _, _)
SegmentModelRecords(company_id, quarters, n) ==
    IF n = 0 THEN <<>>
    ELSE SegmentModelRecords(company_id, quarters, n - 1)
           \o (IF HasRevenue(quarters[n])
               THEN [k \in 1..Len(SegmentModel) |->
                       SegmentModelRecord(company_id, quarters[n], SegmentModel[k])]
               ELSE <<>>)

\* update_2024_business_segments: nothing catches a raise, so the run ends
\* where a store call raises: at the delete (done = -1) or at the insert
\* that follows `done' inserted quarters.
update_2024_business_segments(done) ==
    /\ NoneUnderWay
    /\ companies /= <<>>
    /\ FinancialOfYear(financial_data, companies[1], SEGMENT_MODEL_YEAR) /= <<>>
    /\ done <= Len(FinancialOfYear(financial_data, companies[1], SEGMENT_MODEL_YEAR))
    /\ product_line_revenue' =
          IF done < 0 THEN product_line_revenue
          ELSE WithoutYear(product_line_revenue, companies[1], SEGMENT_MODEL_YEAR)
                 \o SegmentModelRecords(companies[1],
                       FinancialOfYear(financial_data, companies[1], SEGMENT_MODEL_YEAR),
                       done)
    /\ UNCHANGED <<call, companies, financial_data, proc, last, calls, failures, run>>

\* delete().eq('company_id', ..).eq('data_source', 'estimated')
WithoutEstimates(table, company_id) ==
    LET Stays(r) == ~(r.company_id = company_id /\ r.data_source = "estimated")
    IN  SelectSeq(table, Stays)

\* cleanup_estimated_data('NTGR'), on product_line_revenue: a raise before
\* the delete leaves the table as it is.
cleanup_estimated_data(o) ==
    /\ NoneUnderWay
    /\ companies /= <<>>
    /\ product_line_revenue' =
          IF o = "raise" THEN product_line_revenue
          ELSE WithoutEstimates(product_line_revenue, companies[1])
    /\ UNCHANGED <<call, companies, financial_data, proc, last, calls, failures, run>>

\* The most financial records of one year the store holds.
MaxYearRecords == 2

\* The store before any script runs: the crawler may have written a
\* financial record.
InitSources ==
    /\ call = Idle
    /\ companies = <<NTGR>>
    /\ financial_data \in {<<>>, <<AlphaVantageRow>>}
    /\ product_line_revenue = <<>>
    /\ proc = [p \in Procs |-> IdleProc]
    /\ last = NoCall
    /\ calls = 0
    /\ failures = 0
    /\ run = NoRun

\* The extractor and the other scripts, run in any order.
NextSources ==
    \/ Next
    \/ \E o \in EstimateOutcomes : UpdateEnhancedData(o)
    \/ \E done \in -1..MaxYearRecords : update_2024_business_segments(done)
    \/ \E o \in {"ok", "raise"} : cleanup_estimated_data(o)

SpecSources == InitSources /\ [][NextSources]_vars

(***************************************************************************)
(* The basic extractor: metrics and persistence                            *)
(***************************************************************************)
\* revenue_patterns of extract_financial_metrics
BasicTotalPatterns ==
    << <<Lit({"net"}), Lit({"revenue"}), OptWs({"of"}), OptWs({"were"}),
         NumEl("ws", Amount, {}), Ws({"million"})>>,
       <<Lit({"total"}), Ws({"net"}), Ws({"revenue"}), NumEl("ws", Amount, {}),
         Ws({"million"})>>,
       <<Lit({"net"}), Ws({"revenue"}), NumEl("ws", Amount, {}), Ws({"million"})>> >>

\* lines 142-149: the first pattern that matches gives the total; float()
\* is not guarded, and no range is tested.
BasicTotalOf(m, otherwise) ==
    IF ~m.ok THEN otherwise
    ELSE IF FloatOk(m.cap) THEN Some(m.cap.v * Million)
    ELSE Raised("ValueError")

RECURSIVE BasicTotalLoop(_, _)
BasicTotalLoop(text, n) ==
    IF n > Len(BasicTotalPatterns) THEN NoValue
    ELSE BasicTotalOf(Search(BasicTotalPatterns[n], text), BasicTotalLoop(text, n + 1))

BASIC_CUTOVER == 2025

\* segment_patterns of extract_business_segments, in dictionary order
BasicSchema(fiscal_year) ==
    IF fiscal_year >= BASIC_CUTOVER
    THEN << [name |-> "NETGEAR for Business",
             patterns |-> << NetgearForBusiness \o NumTail, <<Lit({"nfb"})>> \o NumTail >>],
            [name |-> "Home Networking",
             patterns |-> << <<Lit({"home"}), Lit({"networking"})>> \o NumTail,
                             <<Lit({"home"})>> \o NumTail >>],
            [name |-> "Mobile",
             patterns |-> << <<Lit({"mobile"})>> \o NumTail >>] >>
    ELSE << [name |-> "Connected Home",
             patterns |-> << <<Lit({"connected"}), Lit({"home"})>> \o NumTail >>],
            [name |-> "NETGEAR for Business",
             patterns |-> << NetgearForBusiness \o NumTail, <<Lit({"nfb"})>> \o NumTail >>] >>

\* for pattern in patterns: the first pattern that matches
FirstOk(m, otherwise) == IF m.ok THEN m ELSE otherwise

RECURSIVE BasicFirstMatch(_, _, _)
BasicFirstMatch(patterns, text, n) ==
    IF n > Len(patterns) THEN NoMatch
    ELSE FirstOk(Search(patterns[n], text), BasicFirstMatch(patterns, text, n + 1))

\* lines 195-212: the segment of a match
BasicSegmentData(name, m) ==
    [category_name |-> name, revenue |-> m.cap.v * Million,
     growth_rate |-> Unmodelled, gross_margin |-> Unmodelled]

\* The segments of the matches hit[k..] of the names schema[k..].
RECURSIVE BasicSegmentsOf(_, _, _)
BasicSegmentsOf(schema, hit, k) ==
    IF k > Len(schema) THEN <<>>
    ELSE (IF hit[k].ok THEN <<BasicSegmentData(schema[k].name, hit[k])>> ELSE <<>>)
         \o BasicSegmentsOf(schema, hit, k + 1)

BasicSegmentsFrom(schema, hit) ==
    IF \E k \in 1..Len(schema) : hit[k].ok /\ ~FloatOk(hit[k].cap)
    THEN Raised("ValueError")
    ELSE [kind |-> "segments", v |-> BasicSegmentsOf(schema, hit, 1)]

BasicHits(schema, text) ==
    [k \in 1..Len(schema) |-> BasicFirstMatch(schema[k].patterns, text, 1)]

\* extract_business_segments, lines 192-214: for each name of the schema
\* the first pattern that matches; float() is not guarded.
extract_business_segments(text, fiscal_year) ==
    BasicSegmentsFrom(BasicSchema(fiscal_year), BasicHits(BasicSchema(fiscal_year), text))

BasicMetrics(total_revenue, segments) ==
    IF total_revenue.kind = "raise" THEN total_revenue
    ELSE IF segments.kind = "raise" THEN segments
    ELSE [kind |-> "metrics", total_revenue |-> total_revenue, segments |-> segments.v]

\* extract_financial_metrics: the total, then the segments.  The texts of
\* the model hold none of the phrases of extract_growth_rates and
\* extract_margins.
extract_financial_metrics(text, period_info) ==
    BasicMetrics(BasicTotalLoop(text, 1),
                 extract_business_segments(text, period_info.fiscal_year))

\* select('id').eq('company_id', ..).eq('period', ..)
BasicFinancialExisting(table, company_id, period) ==
    {i \in 1..Len(table) : /\ table[i].company_id = company_id
                           /\ table[i].period = period}

\* select('id').eq('company_id', ..).eq('period', ..).eq('category_name', ..)
BasicSegmentExisting(table, company_id, period, category_name) ==
    {i \in 1..Len(table) : /\ table[i].company_id = company_id
                           /\ table[i].period = period
                           /\ table[i].category_name = category_name}

\* A variant that writes over the row it finds.
BasicFinancialWriteOver(table, record, existing) ==
    IF existing = {} THEN Append(table, record)
    ELSE [table EXCEPT ![CHOOSE i \in existing : TRUE] = record]

\* lines 332-350: a found row is left as it is, otherwise the record is inserted
BasicFinancialWrite(table, record, existing) ==
    IF existing = {} THEN Append(table, record) ELSE table

BasicFinancialOutcomes == {"ok", "check_raise", "insert_raise", "nodata"}

\* save_financial_data; ff is what the client does
save_financial_data(table, cs, period_info, total_revenue, ff) ==
    IF cs = <<>> \/ ff = "check_raise" THEN [table |-> table, saved |-> FALSE]
    ELSE LET existing == BasicFinancialExisting(table, cs[1], period_info.period)
             record == [company_id     |-> cs[1],
                        period         |-> period_info.period,
                        fiscal_year    |-> period_info.fiscal_year,
                        fiscal_quarter |-> period_info.fiscal_quarter,
                        revenue        |-> IF total_revenue = NoValue THEN NoValue
                                           ELSE total_revenue.v,
                        data_source    |-> OFFICIAL]
         IN  IF existing = {} /\ ff \in {"insert_raise", "nodata"}
             THEN [table |-> table, saved |-> FALSE]
             ELSE [table |-> BasicFinancialWrite(table, record, existing), saved |-> TRUE]

RECURSIVE SumOfRevenues(_)
SumOfRevenues(segments) ==
    IF segments = <<>> THEN 0
    ELSE Head(segments).revenue + SumOfRevenues(Tail(segments))

\* lines 377-397: total_revenue is sum(s['revenue'] for s in segments)
BasicSegmentRecord(company_id, period_info, segments, segment) ==
    [company_id         |-> company_id,
     period             |-> period_info.period,
     fiscal_year        |-> period_info.fiscal_year,
     fiscal_quarter     |-> period_info.fiscal_quarter,
     category_level     |-> 1,
     category_name      |-> segment.category_name,
     revenue            |-> segment.revenue,
     revenue_percentage |-> RevenuePercentage(segment.revenue, SumOfRevenues(segments)),
     gross_margin       |-> segment.gross_margin,
     data_source        |-> OFFICIAL,
     estimation_method  |-> "pdf_text_extraction",
     yoy_growth         |-> segment.growth_rate]

BasicSegmentOutcomes == {"check_raise", "insert_raise", "nodata"}

\* extract_business_segments finds at most one segment per name.
MaxBasicSegments == 3

\* The loop of save_segment_data from segment k on: fs is the segment at
\* which the client misbehaves and fk how.  An exception ends the loop.
RECURSIVE SaveSegmentsLoop(_, _, _, _, _, _, _, _)
SaveSegmentsLoop(table, company_id, period_info, segments, k, fs, fk, saved_count) ==
    IF k > Len(segments) THEN [table |-> table, saved |-> saved_count]
    ELSE IF k = fs /\ fk = "check_raise" THEN [table |-> table, saved |-> saved_count]
    ELSE IF BasicSegmentExisting(table, company_id, period_info.period,
                                 segments[k].category_name) /= {}
    THEN SaveSegmentsLoop(table, company_id, period_info, segments, k + 1, fs, fk,
                          saved_count)
    ELSE IF k = fs /\ fk = "insert_raise" THEN [table |-> table, saved |-> saved_count]
    ELSE IF k = fs /\ fk = "nodata"
    THEN SaveSegmentsLoop(table, company_id, period_info, segments, k + 1, fs, fk,
                          saved_count)
    ELSE SaveSegmentsLoop(
             Append(table, BasicSegmentRecord(company_id, period_info, segments,
                                              segments[k])),
             company_id, period_info, segments, k + 1, fs, fk, saved_count + 1)

save_segment_data(table, cs, period_info, segments, fs, fk) ==
    IF cs = <<>> THEN [table |-> table, saved |-> 0]
    ELSE SaveSegmentsLoop(table, cs[1], period_info, segments, 1, fs, fk, 0)

BasicStopped(outcome, stages) ==
    [outcome |-> outcome, stages |-> stages, period_info |-> NoValue, metrics |-> NoValue]

\* lines 430-431: the metrics are there, or float() has raised
BasicWithMetrics(period_info, metrics) ==
    IF metrics.kind = "raise"
    THEN BasicStopped(metrics, <<"period", "text", "metrics">>)
    ELSE [outcome |-> NoValue, stages |-> <<"period", "text", "metrics", "save">>,
          period_info |-> period_info, metrics |-> metrics]

\* lines 417-428: the period and the text
BasicStages(period_info, text) ==
    IF period_info.kind = "none"
    THEN BasicStopped(Failure("period_parse_failed"), <<"period">>)
    ELSE IF text = <<>>
    THEN BasicStopped(Failure("text_extraction_failed"), <<"period", "text">>)
    ELSE BasicWithMetrics(period_info, extract_financial_metrics(text, period_info))

\* process_pdf_file of the basic extractor up to the metrics, lines 411-431
BasicExtracted(filename, text) ==
    BasicStages(basic_parse_period_from_filename(filename), text)

\* lines 437-444: the outcome of a document that was saved; f and g are
\* what the two saves returned
BasicSaved(x, f, g) ==
    [outcome |-> [kind |-> "outcome", success |-> TRUE,
                  period |-> x.period_info.period,
                  total_revenue |-> x.metrics.total_revenue,
                  segments_count |-> Len(x.metrics.segments),
                  financial_saved |-> f.saved,
                  segments_saved |-> g.saved],
     stages |-> x.stages,
     financial_data |-> f.table,
     product_line_revenue |-> g.table]

\* process_pdf_file of the basic extractor on the store db, lines 433-444;
\* x is BasicExtracted(filename, text)
basic_process_pdf_file(x, db, ff, fs, fk) ==
    IF x.outcome /= NoValue
    THEN [outcome |-> x.outcome, stages |-> x.stages,
          financial_data |-> db.financial_data,
          product_line_revenue |-> db.product_line_revenue]
    ELSE BasicSaved(x,
             save_financial_data(db.financial_data, db.companies, x.period_info,
                                 x.metrics.total_revenue, ff),
             save_segment_data(db.product_line_revenue, db.companies, x.period_info,
                               x.metrics.segments, fs, fk))

(***************************************************************************)
(* run_extraction: the batch loop of both extractors                       *)
(***************************************************************************)
\* The document names in the order of their path strings.
NameOrder ==
    << <<QWord(1, TRUE), TQuarter, TYear(2025)>>,
       <<QWord(4, TRUE), TQuarter, TYear(2024)>>,
       <<QWord(4, TRUE), TQuarter, TAndFullYear, TYear(2024)>>,
       <<TWord>> >>

Rank(f) == CHOOSE k \in 1..Len(NameOrder) : NameOrder[k] = f

RECURSIVE sorted(_)
sorted(names) ==
    IF names = {} THEN <<>>
    ELSE LET f == CHOOSE f \in names : \A g \in names : Rank(f) <= Rank(g)
         IN  <<f>> \o sorted(names \ {f})

\* find_pdf_files: the documents of the directory, sorted by path.  The
\* directory maps each file name to the text of its document.
find_pdf_files(directory) ==
    LET pdf_files == sorted(DOMAIN directory)
    IN  [k \in 1..Len(pdf_files) |->
            [filename |-> pdf_files[k], text |-> directory[pdf_files[k]]]]

Directories ==
    UNION {[names -> RunTexts] :
             names \in {N \in SUBSET DocNames : Cardinality(N) <= MaxCalls}}

\* What the basic extractor extracts from each document.
BasicExtractedOf == [f \in DocNames, t \in RunTexts |-> BasicExtracted(f, t)]

Extractors == {"enhanced", "basic"}

Succeeded(outcome) == outcome.kind = "outcome" /\ outcome.success

\* A variant whose except branch gives the batch up.
AfterDocumentAbortOnRaise(r, filename, outcome, stages) ==
    IF outcome.kind = "raise"
    THEN [r EXCEPT !.i = Len(r.files) + 1]
    ELSE [r EXCEPT !.i = @ + 1,
                   !.processed_count = @ + 1,
                   !.successful_count = IF Succeeded(outcome) THEN @ + 1 ELSE @,
                   !.results = Append(@, [filename |-> filename, outcome |-> outcome,
                                          stages |-> stages])]

\* One pass of the loop body: the try branch counts the document and, if
\* it succeeded, the success; the except branch counts the document.
AfterDocument(r, filename, outcome, stages) ==
    [r EXCEPT !.i = @ + 1,
              !.processed_count = @ + 1,
              !.successful_count = IF Succeeded(outcome) THEN @ + 1 ELSE @,
              !.results = Append(@, [filename |-> filename, outcome |-> outcome,
                                     stages |-> stages])]

InitRun ==
    /\ call = Idle
    /\ companies \in {<<>>, <<NTGR>>}
    /\ \/ financial_data = <<>> /\ product_line_revenue = <<>>
       \/ financial_data = <<AlphaVantageRow>> /\ product_line_revenue = <<EstimatedRow>>
    /\ proc = [p \in Procs |-> IdleProc]
    /\ last = NoCall
    /\ calls = 0
    /\ failures = 0
    /\ run \in {[NoRun EXCEPT !.extractor = e, !.pc = "start",
                              !.files = find_pdf_files(d), !.i = 1] :
                  e \in Extractors, d \in Directories}

\* lines 488-496: no document, no run
RunStart ==
    /\ run.pc = "start"
    /\ run' = IF run.files = <<>>
              THEN [run EXCEPT !.pc = "done", !.ret = FALSE]
              ELSE [run EXCEPT !.pc = "loop"]
    /\ UNCHANGED <<call, store, proc, last, calls, failures>>

InLoop(e) ==
    /\ run.extractor = e
    /\ run.pc = "loop"
    /\ run.i <= Len(run.files)

\* line 501: the enhanced extractor is called on the next document
RunCall(p) ==
    /\ InLoop("enhanced")
    /\ LET doc == run.files[run.i]
       IN  ProcessPdfFile(p, doc.filename, doc.text, ExtractedOf[doc.filename, doc.text])

\* lines 502-516: its outcome, or the exception it raised, is counted
RunTake(p) ==
    /\ InLoop("enhanced")
    /\ proc[p].pc = "done"
    /\ run' = AfterDocument(run, proc[p].filename, proc[p].outcome, proc[p].stages)
    /\ last' = [filename |-> proc[p].filename, text |-> proc[p].text,
                clean |-> proc[p].clean, outcome |-> proc[p].outcome]
    /\ proc' = [proc EXCEPT ![p] = [IdleProc EXCEPT !.company_id = proc[p].company_id]]
    /\ UNCHANGED <<call, store, calls, failures>>

\* The store a call works on.
Db == [companies |-> companies, financial_data |-> financial_data,
       product_line_revenue |-> product_line_revenue]

\* The calls of the client that misbehave.
Misbehaved(ff, fs) == (IF ff = "ok" THEN 0 ELSE 1) + (IF fs = 0 THEN 0 ELSE 1)

\* The loop body of the basic extractor has run on doc with this result.
RunBasicDone(doc, result, failed) ==
    /\ failures + failed <= MaxFailures
    /\ failures' = failures + failed
    /\ financial_data' = result.financial_data
    /\ product_line_revenue' = result.product_line_revenue
    /\ run' = AfterDocument(run, doc.filename, result.outcome, result.stages)
    /\ UNCHANGED <<call, companies, proc, last, calls>>

\* the loop body of the basic extractor: process_pdf_file on the next
\* document, with what the client does to its calls
RunBasic(ff, fs, fk) ==
    /\ InLoop("basic")
    /\ RunBasicDone(run.files[run.i],
                    basic_process_pdf_file(
                        BasicExtractedOf[run.files[run.i].filename, run.files[run.i].text],
                        Db, ff, fs, fk),
                    Misbehaved(ff, fs))

\* lines 518-532: the loop is over, the run reports whether a document succeeded
RunFinish ==
    /\ run.pc = "loop"
    /\ run.i > Len(run.files)
    /\ run' = [run EXCEPT !.pc = "done", !.ret = (run.successful_count > 0)]
    /\ UNCHANGED <<call, store, proc, last, calls, failures>>

RunStep(p) ==
    \/ RunCall(p)
    \/ \E o \in CheckOutcomes : GetCompanyId(p, o)
    \/ \E o \in CheckOutcomes : FinancialCheck(p, o)
    \/ \E o \in InsertOutcomes : FinancialInsert(p, o)
    \/ \E o \in CheckOutcomes : SegmentCheck(p, o)
    \/ \E o \in InsertOutcomes : SegmentInsert(p, o)
    \/ ReturnSuccess(p)
    \/ RunTake(p)

NextRun ==
    \/ RunStart
    \/ \E p \in Running : RunStep(p)
    \/ \E ff \in BasicFinancialOutcomes, fs \in 0..MaxBasicSegments,
          fk \in BasicSegmentOutcomes : RunBasic(ff, fs, fk)
    \/ RunFinish

\* The loop is sequential code: whenever a step is possible one is taken.
SpecRun == InitRun /\ [][NextRun]_vars /\ WF_vars(NextRun)

(***************************************************************************)
(* Properties                                                              *)
(***************************************************************************)
ParseFns == {"enhanced.parse_period_from_filename", "basic.parse_period_from_filename"}

\* The words 'Fourth Quarter and Full Year <YYYY>' stand at token i of s.
FullYearPhraseAt(s, i) ==
    /\ i + 3 <= Len(s)
    /\ s[i] = QWord(4, TRUE) /\ s[i+1] = TQuarter /\ s[i+2] = TAndFullYear
    /\ s[i+3].k = "year"

\* No other supported phrasing stands in s.
NoOtherPhrasing(s) ==
    \A j \in 1..Len(s) : \A n \in {1, 3, 4} : ~PatternMatchAt(n, s, j)

\* C1: for every filename containing 'Fourth Quarter and Full Year <YYYY>'
\* (and no other supported phrasing), parse_period_from_filename of either
\* extractor returns fiscal_year = YYYY, fiscal_quarter = 4 and the label
\* Q4-YYYY; it neither returns None nor raises.
C1_FullYearResolvesToQ4 ==
    call.fn \in ParseFns =>
        \A i \in 1..Len(call.arg) :
            FullYearPhraseAt(call.arg, i) /\ NoOtherPhrasing(call.arg) =>
                /\ call.ret.kind = "period"
                /\ call.ret.fiscal_year = call.arg[i+3].v
                /\ call.ret.fiscal_quarter = 4
                /\ call.ret.period = PeriodLabel(4, call.arg[i+3].v)

\* The first match of each total-revenue pattern in the text.
TotalCandidates(text) ==
    {m \in {Search(TotalRevenuePatterns[n], text) : n \in 1..Len(TotalRevenuePatterns)} :
        m.ok}

InTotalBand(v) == 50000000 <= v /\ v <= 500000000

AllCandidatesOutside(text) ==
    \A m \in TotalCandidates(text) : ~FloatOk(m.cap) \/ ~InTotalBand(m.cap.v * 1000000)

\* C2: extract_total_revenue returns None or a value v with
\* 50,000,000 <= v <= 500,000,000 that is a numeral of the text times
\* 1,000,000; when every candidate match is outside the band the result is
\* None (not zero, not a bound).
C2_TotalRevenueInBandOrAbsent ==
    call.fn = "extract_total_revenue" =>
        /\ \/ call.ret = NoValue
           \/ /\ call.ret.kind = "some"
              /\ InTotalBand(call.ret.v)
              /\ \E i \in 1..Len(call.arg) :
                    FloatOk(call.arg[i]) /\ call.ret.v = call.arg[i].v * 1000000
        /\ AllCandidatesOutside(call.arg) => call.ret = NoValue

\* A text with candidate matches, all outside the band, was answered None.
C2_Witness ==
    /\ call.fn = "extract_total_revenue"
    /\ \E m \in TotalCandidates(call.arg) : FloatOk(m.cap)
    /\ AllCandidatesOutside(call.arg)
    /\ call.ret = NoValue

SegmentFns ==
    {"extract_segment_data_2025", "extract_segment_data_2024", "extract_segment_data_2023"}

BandTop(fn) == IF fn = "extract_segment_data_2023" THEN 300000000 ELSE 200000000

\* C3: every entry returned by extract_segment_data_2025 / _2024 has its
\* revenue in 10,000,000..200,000,000 and every entry returned by
\* extract_segment_data_2023 in 10,000,000..300,000,000; the revenue is a
\* numeral of the text times 1,000,000, so a match outside the band yields
\* no entry.
C3_SegmentRevenueInBand ==
    call.fn \in SegmentFns =>
        \A k \in 1..Len(call.ret) :
            /\ 10000000 <= call.ret[k].revenue
            /\ call.ret[k].revenue <= BandTop(call.fn)
            /\ \E i \in 1..Len(call.arg) :
                  FloatOk(call.arg[i]) /\ call.ret[k].revenue = call.arg[i].v * 1000000

\* A pattern of the 2025 schema matched a value above the band, and the
\* extraction still returned entries (none of them that value).
C3_Witness ==
    /\ call.fn = "extract_segment_data_2025"
    /\ Len(call.ret) > 0
    /\ \E g \in 1..Len(Schema2025) : \E n \in 1..Len(Schema2025[g].patterns) :
          LET matches == FindIter(Schema2025[g].patterns[n], call.arg)
          IN  \E k \in 1..Len(matches) :
                  FloatOk(matches[k].cap) /\ matches[k].cap.v * 1000000 > 200000000

\* C4: extract_growth_rate_from_context returns None or a value in
\* [-50, 100], extract_margin_from_context None or a value in [5, 60]; the
\* value is a numeral of the window (with its sign for growth), never a
\* bound put in place of an out-of-range numeral.
C4_GrowthAndMarginInRangeOrAbsent ==
    /\ call.fn = "extract_growth_rate_from_context" =>
          \/ call.ret = NoValue
          \/ /\ call.ret.kind = "some"
             /\ -50 <= call.ret.v /\ call.ret.v <= 100
             /\ \E i \in 1..Len(call.arg) :
                   /\ FloatOk(call.arg[i])
                   /\ call.ret.v \in {call.arg[i].v, 0 - call.arg[i].v}
    /\ call.fn = "extract_margin_from_context" =>
          \/ call.ret = NoValue
          \/ /\ call.ret.kind = "some"
             /\ 5 <= call.ret.v /\ call.ret.v <= 60
             /\ \E i \in 1..Len(call.arg) :
                   FloatOk(call.arg[i]) /\ call.ret.v = call.arg[i].v

\* A growth pattern matched a numeral below -50 or above 100 and the answer
\* was None.
C4_Witness ==
    /\ call.fn = "extract_growth_rate_from_context"
    /\ call.ret = NoValue
    /\ \E n \in 1..Len(GrowthPatterns) :
          LET m == Search(GrowthPatterns[n], call.arg)
          IN  m.ok /\ FloatOk(m.cap) /\ m.cap.v > 50

\* Run p works on the document of the last call, whose persistence calls
\* all succeeded.
SecondRun(p) ==
    /\ proc[p].pc /= "idle"
    /\ last.outcome /= NoValue
    /\ last.clean
    /\ last.filename = proc[p].filename
    /\ last.text = proc[p].text

\* C5: when process_pdf_file runs a second time on the same filename and
\* text, nothing else writing and every persistence call of the first run
\* having succeeded, the second run inserts nothing: financial_saved stays
\* false, segments_saved stays 0 and the store is what it was before the run.
C5_SecondRunInsertsNothing ==
    \A p \in Running :
        SecondRun(p) =>
            /\ Snapshot = proc[p].before
            /\ proc[p].financial_saved = FALSE
            /\ proc[p].segments_saved = 0

\* The first run saved the financial record and segments; the second run on
\* the same document has returned success.
C5_Witness ==
    \E p \in Running :
        /\ SecondRun(p)
        /\ proc[p].pc = "done"
        /\ proc[p].outcome.kind = "outcome" /\ proc[p].outcome.success
        /\ last.outcome.kind = "outcome" /\ last.outcome.success
        /\ last.outcome.financial_saved /\ last.outcome.segments_saved > 0

OfficialKey(r) == <<r.company_id, r.period, r.category_name>>

NoDuplicateOfficialKey ==
    \A i, j \in 1..Len(product_line_revenue) :
        /\ i /= j
        /\ product_line_revenue[i].data_source = OFFICIAL
        /\ product_line_revenue[j].data_source = OFFICIAL
        => OfficialKey(product_line_revenue[i]) /= OfficialKey(product_line_revenue[j])

ExistingRowsKept ==
    /\ Len(product_line_revenue') >= Len(product_line_revenue)
    /\ \A i \in 1..Len(product_line_revenue) :
          product_line_revenue'[i] = product_line_revenue[i]

\* C6: from a store without two records of one key, sequential runs keep at
\* most one product_line_revenue record per (company, period, category_name,
\* 'official_pdf_report'), and no step changes or removes a record that is
\* already there.
C6_OneOfficialRecordPerKey == [](NoDuplicateOfficialKey) /\ [][ExistingRowsKept]_vars

\* A run met the official record that was there for one of its segments,
\* with another revenue, left it and inserted its other segments.
C6_Witness ==
    \E p \in Running :
        /\ proc[p].pc = "done"
        /\ proc[p].outcome.kind = "outcome" /\ proc[p].outcome.success
        /\ proc[p].segments_saved > 0
        /\ Len(product_line_revenue) > 1
        /\ product_line_revenue[1] = OfficialRow
        /\ \E k \in 1..Len(proc[p].segments) :
              /\ proc[p].segments[k].category_name = OfficialRow.category_name
              /\ proc[p].period_info.period = OfficialRow.period
              /\ proc[p].segments[k].revenue /= OfficialRow.revenue

\* C7: the list returned by extract_segment_data_2025 / _2024 / _2023 holds
\* at most one entry per segment name.
C7_OneEntryPerSegment ==
    call.fn \in SegmentFns =>
        \A i, j \in 1..Len(call.ret) :
            i /= j => call.ret[i].category_name /= call.ret[j].category_name

SegmentNames(entries) == {entries[k].category_name : k \in 1..Len(entries)}

LegacyResult(text) == SegmentLoop(Schema2024Legacy, text, SEG_MAX, 1)

\* C8: extract_segment_data_2024 returns the result of the new schema when
\* that schema matched at least two distinct segments, and the result of the
\* legacy schema exactly when it matched fewer than two distinct segments.
C8_FallbackIffFewerThanTwoSegments ==
    call.fn = "extract_segment_data_2024" =>
        LET three_segment_data == extract_segment_data_2025(call.arg)
        IN  IF Cardinality(SegmentNames(three_segment_data)) >= 2
            THEN call.ret = three_segment_data
            ELSE call.ret = LegacyResult(call.arg)

NewOnlyNames == {"Home Networking", "Mobile"}

\* C9: for a fiscal 2024 text in which the two legacy segments are found and
\* neither Home Networking nor Mobile is, extract_segment_data_2024 returns
\* the legacy-schema entries; for a text in which the three new segments are
\* found it returns the new-schema entries.
C9_TransitionYearOutput ==
    call.fn = "extract_segment_data_2024" =>
        LET three_segment_data == extract_segment_data_2025(call.arg)
            legacy == LegacyResult(call.arg)
        IN  /\ /\ SegmentNames(legacy) = {"Connected Home", "NETGEAR for Business"}
               /\ SegmentNames(three_segment_data) \cap NewOnlyNames = {}
               => call.ret = legacy
            /\ SegmentNames(three_segment_data)
                  = {"NETGEAR for Business", "Home Networking", "Mobile"}
               => call.ret = three_segment_data

\* C10: the extraction chosen for a fiscal year: from 2025 on the new
\* three-category schema alone, before 2024 the legacy two-category schema
\* alone, in 2024 the new schema first and then the legacy one; every year
\* gets exactly one of these.
C10_SchemaByFiscalYear ==
    call.fn = "process_pdf_file.segments" =>
        LET year == call.arg.year
            text == call.arg.text
            new == SegmentLoop(Schema2025, text, SEG_MAX, 1)
        IN  /\ year >= 2025 => call.ret = new
            /\ year < 2024 => call.ret = SegmentLoop(Schema2023, text, SEG_MAX_2023, 1)
            /\ year = 2024 => call.ret = IF Len(new) >= 2 THEN new ELSE LegacyResult(text)
            /\ year >= 2025 =>
                  SegmentNames(call.ret) \subseteq
                      {"NETGEAR for Business", "Home Networking", "Mobile"}
            /\ year < 2024 =>
                  SegmentNames(call.ret) \subseteq {"Connected Home", "NETGEAR for Business"}

\* A fiscal 2024 text for which the new schema gave too little and the
\* legacy schema gave the output.
C10_Witness ==
    /\ call.fn = "process_pdf_file.segments"
    /\ call.arg.year = 2024
    /\ call.ret /= <<>>
    /\ call.ret /= SegmentLoop(Schema2025, call.arg.text, SEG_MAX, 1)
    /\ "Connected Home" \in SegmentNames(call.ret)

GrowthFn == "extract_growth_rate_from_context"

\* The positions of the percentage figures of a window: a numeral glued to
\* '%' or followed by the word percent.
PercentFigures(c) ==
    {i \in 1..Len(c) :
        /\ c[i].w = "#"
        /\ \/ c[i].a \in {"%", "+%", "-%"}
           \/ i < Len(c) /\ c[i+1].w = "percent"}

\* The words 'verb by N%' stand at word i of the window.
ChangeByAt(c, i, verb) ==
    /\ i + 2 <= Len(c)
    /\ c[i] = W(verb) /\ c[i+1] = W("by")
    /\ c[i+2].w = "#" /\ c[i+2].a = "%"

\* C11: for a window whose change phrase is 'decreased by N%' (its only
\* percentage figure) with N <= 50, extract_growth_rate_from_context returns
\* -N, not +N.
C11_DecreasedByIsNegative ==
    call.fn = GrowthFn =>
        \A i \in 1..Len(call.arg) :
            /\ ChangeByAt(call.arg, i, "decreased")
            /\ PercentFigures(call.arg) = {i + 2}
            /\ call.arg[i+2].v <= 50
            => call.ret = Some(0 - call.arg[i+2].v)

\* 'decreased by N%' among other words was answered -N.
C11_Witness ==
    /\ call.fn = GrowthFn
    /\ Len(call.arg) > 3
    /\ \E i \in 1..Len(call.arg) :
          /\ ChangeByAt(call.arg, i, "decreased")
          /\ PercentFigures(call.arg) = {i + 2}
          /\ call.ret = Some(0 - call.arg[i+2].v)
          /\ call.arg[i+2].v > 0

\* C12: a window whose only change phrase is the noun form 'N% decline' or
\* 'N% decrease' (no '-' sign, no 'decreased' or 'declined') yields -N.
C12_NounFormIsNegative ==
    call.fn = GrowthFn =>
        \A i \in 1..Len(call.arg) :
            /\ i < Len(call.arg)
            /\ call.arg[i].w = "#" /\ call.arg[i].a = "%"
            /\ call.arg[i+1].w \in {"decline", "decrease"}
            /\ PercentFigures(call.arg) = {i}
            /\ \A j \in 1..Len(call.arg) : call.arg[j].w \notin {"decreased", "declined"}
            /\ call.arg[i].v <= 50
            => call.ret = Some(0 - call.arg[i].v)

\* C13: when the matched change phrase holds no decrease/decline/lower
\* keyword, the growth rate is positive for an unsigned phrase ('increased
\* by N%' gives +N) and takes the sign of a signed figure ('-N%' gives -N),
\* whatever other words stand elsewhere in the window.
C13_SignFromMatchedPhrase ==
    call.fn = GrowthFn =>
        \A i \in 1..Len(call.arg) :
            /\ /\ ChangeByAt(call.arg, i, "increased")
               /\ PercentFigures(call.arg) = {i + 2}
               /\ call.arg[i+2].v <= 100
               => call.ret = Some(call.arg[i+2].v)
            /\ /\ call.arg[i].w = "#" /\ call.arg[i].a = "-%"
               /\ PercentFigures(call.arg) = {i}
               /\ call.arg[i].v <= 50
               /\ (i < Len(call.arg) => call.arg[i+1].w \notin DecreaseWords)
               => call.ret = Some(0 - call.arg[i].v)

EnhancedParseFn == "enhanced.parse_period_from_filename"

BasicParseFn == "basic.parse_period_from_filename"

\* The filename with every quarter word in its capitalised spelling.
Capitalised(s) ==
    [i \in 1..Len(s) |-> IF s[i].k = "qword" THEN QWord(s[i].v, TRUE) ELSE s[i]]

\* A quarter word in another letter-casing stands in '<word> Quarter <YYYY>'.
OtherCasingAt(s, i) ==
    /\ i + 2 <= Len(s)
    /\ s[i].k = "qword" /\ ~s[i].x
    /\ s[i+1] = TQuarter /\ s[i+2].k = "year"

\* C14: for every letter-casing of a quarter word ('first quarter 2025',
\* 'FIRST QUARTER 2025') either parse_period_from_filename returns what it
\* returns for the capitalised spelling.
C14_QuarterWordCaseInsensitive ==
    (\E i \in 1..Len(call.arg) : call.fn \in ParseFns /\ OtherCasingAt(call.arg, i)) =>
        /\ call.fn = EnhancedParseFn =>
              call.ret = parse_period_from_filename(Capitalised(call.arg))
        /\ call.fn = BasicParseFn =>
              call.ret = basic_parse_period_from_filename(Capitalised(call.arg))

\* The first pattern of the list, in order, that matches the filename.
FirstMatching(s) == FirstIndex({n \in 1..NumPatterns : PatternSearch(n, s) > 0})

\* C15: the first pattern, in list order, that matches the filename alone
\* determines the result of EnhancedPDFExtractor.parse_period_from_filename:
\* a period that is returned carries the year and the quarter of that
\* pattern's match, never those of a later pattern.
C15_FirstMatchingPatternWins ==
    call.fn = EnhancedParseFn =>
        LET n == FirstMatching(call.arg)
        IN  n \in {1, 3, 4} /\ call.ret.kind = "period" =>
                LET g == PatternGroups(n, call.arg, PatternSearch(n, call.arg))
                IN  /\ call.ret.fiscal_year = g[2].v
                    /\ call.ret.fiscal_quarter = g[1].v

\* C16: every period descriptor returned by either parse_period_from_filename
\* has fiscal_quarter in 1..4 and the label 'Q' fiscal_quarter '-' fiscal_year.
C16_LabelFromYearAndQuarter ==
    call.fn \in ParseFns /\ call.ret.kind = "period" =>
        /\ call.ret.fiscal_quarter \in 1..4
        /\ call.ret.period = <<"Q", call.ret.fiscal_quarter, "-", call.ret.fiscal_year>>

\* The enhanced resolver returned a quarter other than the fourth, taken from
\* a filename that holds a second accepted phrasing.
C16_Witness ==
    /\ call.fn = EnhancedParseFn
    /\ call.ret.kind = "period"
    /\ call.ret.fiscal_quarter < 4
    /\ Cardinality({n \in 1..NumPatterns : PatternSearch(n, call.arg) > 0}) > 1

\* A file name that none of the extractor's period patterns matches.
BasicPatternAt(s, j) ==
    /\ j + 2 <= Len(s)
    /\ s[j].k = "qword" /\ s[j+1].k = "quarter" /\ s[j+2].k = "year"

MatchesNoPattern(e, s) ==
    IF e = "enhanced" THEN FirstMatching(s) = 0
    ELSE \A j \in 1..Len(s) : ~BasicPatternAt(s, j)

PeriodParseFailed(outcome, stages) ==
    /\ outcome = Failure("period_parse_failed")
    /\ stages = <<"period">>

\* C17: for every filename that matches no period pattern, process_pdf_file
\* of either extractor returns the failure outcome 'period_parse_failed'
\* with no segment record; the period stage is the only stage that ran, so
\* no text is read, no value is extracted and no persistence call is
\* issued, and the store is as it was before the call.
C17_NoPatternIsPeriodParseFailed ==
    /\ \A p \in Running :
          (proc[p].pc /= "idle" /\ MatchesNoPattern("enhanced", proc[p].filename))
          => /\ proc[p].pc = "done"
             /\ PeriodParseFailed(proc[p].outcome, proc[p].stages)
             /\ proc[p].segments = <<>>
             /\ proc[p].total_revenue = NoValue
             /\ proc[p].clean
             /\ proc[p].before = Snapshot
    /\ \A k \in 1..Len(run.results) :
          MatchesNoPattern(run.extractor, run.results[k].filename)
          => PeriodParseFailed(run.results[k].outcome, run.results[k].stages)

\* A document with a usable text and an unsupported name has been refused,
\* after a document of the same run was saved.
C17_Witness ==
    \E p \in Running :
        /\ proc[p].pc = "done"
        /\ MatchesNoPattern("enhanced", proc[p].filename)
        /\ extract_total_revenue(proc[p].text) /= NoValue
        /\ Len(run.results) > 0
        /\ Succeeded(run.results[1].outcome)
        /\ product_line_revenue /= <<>>

\* The stages of process_pdf_file in their order.
StageOrder == <<"period", "text", "total_revenue", "segments", "save">>

IsPrefix(a, b) == Len(a) <= Len(b) /\ a = SubSeq(b, 1, Len(a))

\* The call ended at once, wrote nothing and extracted no segment.
StoppedWith(q, reason, nstages) ==
    /\ q.pc = "done"
    /\ q.outcome = Failure(reason)
    /\ q.stages = SubSeq(StageOrder, 1, nstages)
    /\ q.segments = <<>>
    /\ q.clean
    /\ q.before = Snapshot

\* C18: process_pdf_file of the enhanced extractor runs its stages in the
\* order period, text, total revenue, segments, persistence and stops at
\* the first that fails: an empty text gives 'text_extraction_failed', a
\* text without plausible total revenue gives 'revenue_extraction_failed',
\* in both cases without segment extraction, existence check or insert;
\* segments are extracted only once a total revenue has been accepted.
C18_FailFastStageOrder ==
    \A p \in Running :
        proc[p].pc /= "idle" =>
        LET q == proc[p]
            parsed == parse_period_from_filename(q.filename).kind = "period"
        IN  /\ IsPrefix(q.stages, StageOrder)
            /\ (parsed /\ q.text = <<>>) => StoppedWith(q, "text_extraction_failed", 2)
            /\ (parsed /\ q.text /= <<>> /\ extract_total_revenue(q.text) = NoValue)
               => StoppedWith(q, "revenue_extraction_failed", 3)
            /\ (\E k \in 1..Len(q.stages) : q.stages[k] = "segments")
               => /\ q.total_revenue /= NoValue
                  /\ q.total_revenue = extract_total_revenue(q.text)

\* A report whose text holds a segment figure and no total was refused
\* while the store already held rows.
C18_Witness ==
    \E p \in Running :
        /\ proc[p].pc = "done"
        /\ proc[p].outcome = Failure("revenue_extraction_failed")
        /\ SelectSegments(proc[p].period_info.fiscal_year, proc[p].text) /= <<>>
        /\ product_line_revenue /= <<>>
        /\ last.outcome /= NoValue

\* C19: whatever the filename, the text and the state of the store, a call
\* of process_pdf_file that has ended has returned a Document Outcome, a
\* success or a failure with a reason; it has raised no exception.
C19_ReturnsAnOutcome ==
    \A p \in Running :
        proc[p].pc = "done" =>
            /\ proc[p].outcome.kind = "outcome"
            /\ (proc[p].outcome.success \/ proc[p].outcome.reason /= "")

\* The documents attempted so far are the first documents of the sorted
\* list, each once, and the two counters count them.
AttemptedInOrder ==
    /\ Len(run.results) <= Len(run.files)
    /\ \A k \in 1..Len(run.results) : run.results[k].filename = run.files[k].filename
    /\ \A k, l \in 1..Len(run.files) :
          k < l => Rank(run.files[k].filename) < Rank(run.files[l].filename)
    /\ run.processed_count = Len(run.results)
    /\ run.successful_count =
          Cardinality({k \in 1..Len(run.results) : Succeeded(run.results[k].outcome)})

RunOver == run.pc = "done"

\* C20: run_extraction of either extractor attempts every discovered
\* document exactly once, in sorted order, whether earlier documents
\* failed or raised: the loop always ends, and when it has ended
\* processed_count is the number of documents and successful_count the
\* number of documents that returned a success outcome.
C20_EveryDocumentAttemptedOnce ==
    /\ [](AttemptedInOrder)
    /\ [](RunOver => run.processed_count = Len(run.files))
    /\ <>RunOver

\* A run has ended in which the first document raised an exception and the
\* second one, processed after it, succeeded.
C20_Witness ==
    /\ RunOver
    /\ run.extractor = "enhanced"
    /\ Len(run.files) >= 2
    /\ run.results[1].outcome.kind = "raise"
    /\ Succeeded(run.results[2].outcome)
    /\ run.successful_count = 1
    /\ run.ret = TRUE

\* The row a step has appended to product_line_revenue.
InsertedRow == product_line_revenue'[Len(product_line_revenue')]

\* C21: each record save_enhanced_data inserts carries the revenue of its
\* own segment as extracted and, as revenue_percentage, that revenue
\* divided by the total revenue extracted from the document, times 100,
\* whatever the other segments of the document are; the revenues are
\* not rescaled to sum to the total.
C21_PercentageOfDocumentTotal ==
    [][\A p \in Running :
          Len(product_line_revenue') > Len(product_line_revenue) =>
          LET segment == proc[p].segments[proc[p].idx]
              total_revenue == extract_total_revenue(proc[p].text).v
          IN  /\ InsertedRow.category_name = segment.category_name
              /\ InsertedRow.revenue = segment.revenue
              /\ InsertedRow.revenue_percentage[1] = (segment.revenue \div Million) * 100
              /\ InsertedRow.revenue_percentage[2] = total_revenue \div Million]_vars

\* The three segments of one report have been saved, and their revenues
\* do not sum to the total of the report.
C21_Witness ==
    \E p \in Running :
        /\ proc[p].pc = "done"
        /\ proc[p].segments_saved = 3
        /\ Len(product_line_revenue) >= 3
        /\ LET n == Len(product_line_revenue)
               row(k) == product_line_revenue[n - k]
           IN  /\ \A k \in 0..2 : row(k).period = proc[p].period_info.period
               /\ row(0).revenue + row(1).revenue + row(2).revenue
                     /= proc[p].total_revenue.v
               /\ row(0).revenue_percentage[1] + row(1).revenue_percentage[1]
                     + row(2).revenue_percentage[1]
                     /= 100 * row(0).revenue_percentage[2]

\* The document the run loop is at, and what the basic extractor extracts
\* from it.
CurrentDoc == run.files[run.i]

CurrentBasic == BasicExtractedOf[CurrentDoc.filename, CurrentDoc.text]

\* The rows a step appends to product_line_revenue.
NewSegmentRows == (Len(product_line_revenue) + 1)..Len(product_line_revenue')

\* C22: each record save_segment_data of the basic extractor inserts has as
\* revenue_percentage its own revenue divided by the total revenue
\* extracted from the document, times 100, so that the percentages of the
\* segments found need not sum to 100.
C22_BasicPercentageOfDocumentTotal ==
    [][(run.extractor = "basic" /\ NewSegmentRows /= {}
          /\ CurrentBasic.metrics.total_revenue /= NoValue)
       => \A i \in NewSegmentRows :
             product_line_revenue'[i].revenue_percentage =
                RevenuePercentage(product_line_revenue'[i].revenue,
                                  CurrentBasic.metrics.total_revenue.v)]_vars

\* The rows of the table with the four-part key of segment idx of run p.
SameKeyRows(p, sources) ==
    {i \in 1..Len(product_line_revenue) :
        /\ product_line_revenue[i].company_id = proc[p].company_id
        /\ product_line_revenue[i].period = proc[p].period_info.period
        /\ product_line_revenue[i].category_name
              = proc[p].segments[proc[p].idx].category_name
        /\ product_line_revenue[i].data_source \in sources}

\* The existence check of segment idx of run p answers in this step.
SegmentCheckAnswers(p) ==
    /\ proc[p].pc = "segment_check"
    /\ proc[p].idx <= Len(proc[p].segments)
    /\ proc'[p] /= proc[p]
    /\ failures' = failures

\* C23: the existence check of save_enhanced_data is keyed by company,
\* period, category_name and source: the insert of a segment is skipped
\* exactly when a record with these four values and the source
\* 'official_pdf_report' is there; a record of another source with the
\* same company, period and category_name does not suppress it.
C23_ExistenceCheckKeyedBySource ==
    [][\A p \in Running :
          SegmentCheckAnswers(p) =>
             (proc'[p].pc = "segment_insert" <=> SameKeyRows(p, {OFFICIAL}) = {})]_vars

\* The official record of a segment stands beside the estimated record of
\* the same company, period and category_name.
C23_Witness ==
    \E i, j \in 1..Len(product_line_revenue) :
        /\ product_line_revenue[i] = EstimatedRow
        /\ product_line_revenue[j].data_source = OFFICIAL
        /\ product_line_revenue[j].company_id = EstimatedRow.company_id
        /\ product_line_revenue[j].period = EstimatedRow.period
        /\ product_line_revenue[j].category_name = EstimatedRow.category_name

\* The basic extractor saves the current document in this step and the
\* client answers every call.
BasicSavesCleanly ==
    /\ InLoop("basic")
    /\ run' /= run
    /\ failures' = failures
    /\ companies /= <<>>
    /\ CurrentBasic.outcome = NoValue

OfficialFinancialAfter(period) ==
    \E i \in 1..Len(financial_data') :
        /\ financial_data'[i].company_id = companies[1]
        /\ financial_data'[i].period = period
        /\ financial_data'[i].data_source = OFFICIAL

OfficialSegmentAfter(period, category_name) ==
    \E i \in 1..Len(product_line_revenue') :
        /\ product_line_revenue'[i].company_id = companies[1]
        /\ product_line_revenue'[i].period = period
        /\ product_line_revenue'[i].category_name = category_name
        /\ product_line_revenue'[i].data_source = OFFICIAL

\* C24: the existence checks of the basic extractor are keyed by the source
\* too: whatever records of other sources the store holds for the period
\* and the category, once save_financial_data and save_segment_data have
\* run without an error the 'official_pdf_report' records of the document
\* are in the store.
C24_BasicCheckKeyedBySource ==
    [][BasicSavesCleanly =>
          /\ OfficialFinancialAfter(CurrentBasic.period_info.period)
          /\ \A k \in 1..Len(CurrentBasic.metrics.segments) :
                OfficialSegmentAfter(CurrentBasic.period_info.period,
                                     CurrentBasic.metrics.segments[k].category_name)]_vars

RowsKept(before, after) ==
    /\ Len(after) >= Len(before)
    /\ \A i \in 1..Len(before) : after[i] = before[i]

\* C26: both extractors only check and insert: no step of a run changes or
\* removes a record of financial_data or of product_line_revenue, so every
\* record that was there before the run is there, unchanged, after it.
C26_StoresOnlyGrow ==
    [][/\ RowsKept(financial_data, financial_data')
       /\ RowsKept(product_line_revenue, product_line_revenue')]_vars

\* A run of the basic extractor has ended that added records to both
\* tables, in which the records of the other sources still stand.
C26_Witness ==
    /\ run.pc = "done"
    /\ run.extractor = "basic"
    /\ Len(financial_data) > 1
    /\ financial_data[1] = AlphaVantageRow
    /\ Len(product_line_revenue) > 1
    /\ product_line_revenue[1] = EstimatedRow

\* The basic extractor processes, in this step, a document with a period
\* and a text in which no total revenue is found.
BasicMeetsNoTotal ==
    /\ InLoop("basic")
    /\ run' /= run
    /\ CurrentBasic.metrics /= NoValue
    /\ CurrentBasic.metrics.total_revenue = NoValue

\* C27: process_pdf_file of the basic extractor skips a document whose text
\* yields no total revenue: the outcome is the failure
\* 'revenue_extraction_failed', not a success, and no financial or segment
\* record is inserted for the document.
C27_BasicSkipsWithoutTotal ==
    [][BasicMeetsNoTotal =>
          /\ run'.results[Len(run'.results)].outcome = Failure("revenue_extraction_failed")
          /\ financial_data' = financial_data
          /\ product_line_revenue' = product_line_revenue]_vars

SavePcs == {"financial_check", "financial_insert", "segment_check", "segment_insert"}

\* A call of the client made by run p for a record fails in this step.
RecordCallFails(p) == proc[p].pc \in SavePcs /\ failures' > failures

\* The run goes on with the existence check of the next segment.
GoesOnWithNextSegment(p) ==
    /\ proc'[p].pc = "segment_check"
    /\ proc'[p].idx = IF proc[p].pc \in {"financial_check", "financial_insert"}
                      THEN 1 ELSE proc[p].idx + 1
    /\ proc'[p].segments = proc[p].segments
    /\ proc'[p].segments_saved = proc[p].segments_saved
    /\ proc'[p].outcome = NoValue

\* segments_saved counts the segment records the call has inserted.
SavedCountsInserts(p) ==
    proc[p].pc \in SavePcs \cup {"done"} /\ proc[p].before /= <<>> =>
        /\ proc[p].segments_saved =
              Len(product_line_revenue) - Len(proc[p].before.product_line_revenue)
        /\ (proc[p].pc = "done" /\ proc[p].outcome.kind = "outcome"
              /\ proc[p].outcome.success)
           => /\ proc[p].idx = Len(proc[p].segments) + 1
              /\ proc[p].outcome.segments_saved = proc[p].segments_saved

\* C29: in save_enhanced_data a failure of the client stays with its
\* record: when the existence check or the insert of the financial record
\* or of a segment raises, the run goes on with the existence check of the
\* next segment, through to the last one, and the segments_saved it
\* returns is the number of segment records it has inserted.
C29_FailuresIsolatedPerRecord ==
    /\ [](\A p \in Running : SavedCountsInserts(p))
    /\ [][\A p \in Running : RecordCallFails(p) => GoesOnWithNextSegment(p)]_vars

\* The call for the financial record failed, and the three segments of the
\* document were saved after it.
C29_Witness ==
    \E p \in Running :
        /\ proc[p].pc = "done"
        /\ proc[p].outcome.kind = "outcome" /\ proc[p].outcome.success
        /\ ~proc[p].clean
        /\ ~proc[p].outcome.financial_saved
        /\ proc[p].outcome.segments_saved = 3
        /\ financial_data = proc[p].before.financial_data

\* C30: every segment record the enhanced extractor inserts has a
\* revenue_percentage above 0 and at most 100: no accepted segment revenue
\* exceeds the accepted total revenue of its document.
C30_PercentageWithinHundred ==
    \A i \in 1..Len(product_line_revenue) :
        product_line_revenue[i].estimation_method = "enhanced_pdf_extraction" =>
            /\ product_line_revenue[i].revenue_percentage[1] > 0
            /\ product_line_revenue[i].revenue_percentage[1]
                  <= 100 * product_line_revenue[i].revenue_percentage[2]

\* Two records of product_line_revenue with one (company, period,
\* category_name, 'official_pdf_report') key.
DuplicateOfficialKey == ~NoDuplicateOfficialKey

\* C28: the existence check that precedes each insert is all that keeps
\* duplicates out.  A store with two records of one (company, period,
\* category_name, source) key is reached only when a run of
\* save_enhanced_data started while another one was under way; runs that
\* follow one another never reach it.
C28_DuplicateOnlyWhenInterleaved ==
    DuplicateOfficialKey => \E p \in Procs : proc[p].overlapped

\* Both runs found the key of their segment absent before either inserted
\* it: both are about to insert the same key.  The store then holds it twice.
BothAboutToInsert ==
    \E p, q \in Procs :
        /\ p /= q
        /\ proc[p].pc = "segment_insert" /\ proc[q].pc = "segment_insert"
        /\ proc[p].idx = proc[q].idx

C28_Witness ==
    /\ DuplicateOfficialKey
    /\ \A p \in Procs :
          /\ proc[p].pc = "done"
          /\ proc[p].outcome.kind = "outcome" /\ proc[p].outcome.success
          /\ proc[p].clean
          /\ proc[p].segments_saved = Len(product_line_revenue) \div 2

\* The official segment records of a table.
OfficialRecords(table) ==
    {table[i] : i \in {j \in 1..Len(table) : table[j].data_source = OFFICIAL}}

\* C25: once a segment record tagged 'official_pdf_report' is in
\* product_line_revenue, no run of the crawler's estimates, of the dataset
\* script's segment model or of the clean-up of estimates removes or
\* replaces it: the record is in the table, with the values it had, after
\* every step.
C25_OfficialRecordsStay ==
    [][OfficialRecords(product_line_revenue)
         \subseteq OfficialRecords(product_line_revenue')]_vars

====
